---------------------------- MODULE Spec2Model ----------------------------
(***************************************************************************)
(* Model of the onboarding-assistant CLI: the two context generators       *)
(* (lib/frontend-context.js, lib/backend-context.js) and the commands of   *)
(* bin/cli.js that drive them.                                             *)
(*                                                                         *)
(* Text is modelled as JavaScript sees it: a string is a sequence of code  *)
(* points (naturals), a file on disk is a sequence of bytes (naturals      *)
(* below 256).  S("...") writes an ASCII literal as such a sequence.       *)
(***************************************************************************)
EXTENDS Naturals, Sequences, FiniteSets, TLC

(***************************************************************************)
(* Strings                                                                 *)
(***************************************************************************)

\* The printable ASCII characters in code order: codes 32..95, and 97..126
\* (code 96, the backquote, cannot be written in a literal and is left out).
AsciiLow == " !\"#$%&'()*+,-./0123456789:;<=>?@ABCDEFGHIJKLMNOPQRSTUVWXYZ[\\]^_"
AsciiHigh == "abcdefghijklmnopqrstuvwxyz{|}~"

CodeOf == [c \in {SubSeq(AsciiLow, i, i) : i \in 1..Len(AsciiLow)}
                  \cup {SubSeq(AsciiHigh, i, i) : i \in 1..Len(AsciiHigh)} \cup {"\n"} |->
             IF c = "\n" THEN 10
             ELSE IF \E i \in 1..Len(AsciiLow) : SubSeq(AsciiLow, i, i) = c
             THEN 31 + (CHOOSE i \in 1..Len(AsciiLow) : SubSeq(AsciiLow, i, i) = c)
             ELSE 96 + (CHOOSE i \in 1..Len(AsciiHigh) : SubSeq(AsciiHigh, i, i) = c)]

\* The code points of an ASCII literal.
S(lit) == [i \in 1..Len(lit) |-> CodeOf[SubSeq(lit, i, i)]]

\* s.startsWith(pat, p - 1): pat occurs in s at position p (1-based).
OccursAt(s, p, pat) ==
    /\ p >= 1
    /\ p + Len(pat) - 1 <= Len(s)
    /\ SubSeq(s, p, p + Len(pat) - 1) = pat

\* String.prototype.endsWith
EndsWith(s, suf) == Len(suf) <= Len(s) /\ OccursAt(s, Len(s) - Len(suf) + 1, suf)

\* String.prototype.includes
Includes(s, pat) == \E p \in 1..(Len(s) + 1) : OccursAt(s, p, pat)

\* String.prototype.indexOf, 1-based; 0 when pat does not occur at or after from.
IndexOf(s, pat, from) ==
    IF \E p \in from..(Len(s) + 1) : OccursAt(s, p, pat)
    THEN CHOOSE p \in from..(Len(s) + 1) :
            OccursAt(s, p, pat) /\ \A q \in from..(p - 1) : ~OccursAt(s, q, pat)
    ELSE 0

IsUpper(c) == c >= 65 /\ c <= 90
IsLower(c) == c >= 97 /\ c <= 122
IsDigit(c) == c >= 48 /\ c <= 57

\* One character of String.prototype.toLowerCase (ASCII range).
LowerChar(c) == IF IsUpper(c) THEN c + 32 ELSE c

\* String.prototype.toLowerCase
ToLowerCase(s) == [i \in 1..Len(s) |-> LowerChar(s[i])]

\* The concatenation of the sequences ps[lo], ..., ps[hi], by halves.
RECURSIVE FlatRange(_, _, _)
FlatRange(ps, lo, hi) ==
    IF lo > hi THEN <<>>
    ELSE IF lo = hi THEN ps[lo]
    ELSE FlatRange(ps, lo, (lo + hi) \div 2) \o FlatRange(ps, (lo + hi) \div 2 + 1, hi)

Flat(ps) == FlatRange(ps, 1, Len(ps))

\* s.replace(/c/g, r) for a single character c and a replacement string r.
ReplaceChar(s, c, r) == Flat([i \in 1..Len(s) |-> IF s[i] = c THEN r ELSE <<s[i]>>])

\* s.split(sep) for a single character sep.
RECURSIVE SplitAcc(_, _, _)
SplitAcc(s, sep, cur) ==
    IF s = <<>> THEN <<cur>>
    ELSE IF Head(s) = sep THEN <<cur>> \o SplitAcc(Tail(s), sep, <<>>)
    ELSE SplitAcc(Tail(s), sep, Append(cur, Head(s)))

Split(s, sep) == SplitAcc(s, sep, <<>>)

\* parts.join(sep)
RECURSIVE Join(_, _)
Join(parts, sep) ==
    IF parts = <<>> THEN <<>>
    ELSE IF Len(parts) = 1 THEN parts[1]
    ELSE parts[1] \o sep \o Join(Tail(parts), sep)

(***************************************************************************)
(* UTF-8: fs.readFileSync(path, 'utf-8') decodes the bytes of a file into  *)
(* a string, fs.writeFileSync(path, string) encodes a string into bytes.   *)
(* The decoder replaces every ill-formed sequence by U+FFFD.               *)
(***************************************************************************)

\* The number of continuation bytes a lead byte announces; 0 for any other byte.
Utf8Need(b) ==
    IF b >= 194 /\ b <= 223 THEN 1
    ELSE IF b >= 224 /\ b <= 239 THEN 2
    ELSE IF b >= 240 /\ b <= 244 THEN 3
    ELSE 0

\* b is accepted as the k-th continuation byte after this lead byte.
Utf8Accepts(lead, k, b) ==
    IF k > 1 THEN b >= 128 /\ b <= 191
    ELSE b >= (IF lead = 224 THEN 160 ELSE IF lead = 240 THEN 144 ELSE 128)
         /\ b <= (IF lead = 237 THEN 159 ELSE IF lead = 244 THEN 143 ELSE 191)

\* The bytes after position j up to position i continue the sequence that the
\* lead byte at j starts.
Utf8Continues(bs, j, i) ==
    /\ i - j <= Utf8Need(bs[j])
    /\ i <= Len(bs)
    /\ \A k \in 1..(i - j) : Utf8Accepts(bs[j], k, bs[j + k])

\* The byte at i is taken up by a sequence that starts before it.
Utf8Consumed(bs, i) ==
    \E j \in 1..(i - 1) : i - j <= 3 /\ Utf8Continues(bs, j, i)

\* The code point the decoder gives for the bytes that start at i: the
\* character of a well-formed sequence, U+FFFD for anything else.
Utf8CodePointAt(bs, i) ==
    LET b == bs[i]
        n == Utf8Need(b)
    IN IF b < 128 THEN b
       ELSE IF n > 0 /\ Utf8Continues(bs, i, i + n)
       THEN IF n = 1 THEN (b - 192) * 64 + (bs[i + 1] - 128)
            ELSE IF n = 2
                 THEN (b - 224) * 4096 + (bs[i + 1] - 128) * 64 + (bs[i + 2] - 128)
            ELSE (b - 240) * 262144 + (bs[i + 1] - 128) * 4096
                   + (bs[i + 2] - 128) * 64 + (bs[i + 3] - 128)
       ELSE 65533

\* buffer.toString('utf-8')
Utf8Decode(bs) ==
    Flat([i \in 1..Len(bs) |->
            IF Utf8Consumed(bs, i) THEN <<>> ELSE <<Utf8CodePointAt(bs, i)>>])

Utf8EncodeChar(c) ==
    IF c < 128 THEN <<c>>
    ELSE IF c < 2048 THEN <<192 + (c \div 64), 128 + (c % 64)>>
    ELSE IF c < 65536
         THEN <<224 + (c \div 4096), 128 + ((c \div 64) % 64), 128 + (c % 64)>>
    ELSE <<240 + (c \div 262144), 128 + ((c \div 4096) % 64),
           128 + ((c \div 64) % 64), 128 + (c % 64)>>

\* Buffer.from(string, 'utf-8')
Utf8Encode(s) == Flat([i \in 1..Len(s) |-> Utf8EncodeChar(s[i])])

(***************************************************************************)
(* Paths (node's path module, POSIX flavour).  A path is a string whose    *)
(* segments are separated by "/".  The paths of the model are relative,    *)
(* normalized paths: no empty segment, no "." or ".." segment.             *)
(***************************************************************************)

Segments(p) == Split(p, 47)

\* path.join(a, b), for normalized a and b
PathJoin(a, b) == a \o S("/") \o b

\* segs.slice(0, n).join('/')
PrefixPath(segs, n) == Join(SubSeq(segs, 1, n), S("/"))

\* path.dirname
Dirname(p) ==
    IF Len(Segments(p)) <= 1 THEN S(".") ELSE PrefixPath(Segments(p), Len(Segments(p)) - 1)

\* path.basename(p, ext): the last segment, without ext when the segment ends
\* with ext and is longer than it.
StripExt(last, ext) ==
    IF ext # <<>> /\ EndsWith(last, ext) /\ Len(last) > Len(ext)
    THEN SubSeq(last, 1, Len(last) - Len(ext))
    ELSE last

LastOf(segs) == segs[Len(segs)]
Basename(p, ext) == StripExt(LastOf(Segments(p)), ext)

RECURSIVE CommonPrefixLen(_, _)
CommonPrefixLen(a, b) ==
    IF a = <<>> \/ b = <<>> \/ Head(a) # Head(b) THEN 0
    ELSE 1 + CommonPrefixLen(Tail(a), Tail(b))

\* path.relative(from, to), on the segments of the two paths of which n are common
RelativeOf(f, t, n) ==
    Join([i \in 1..(Len(f) - n) |-> S("..")] \o SubSeq(t, n + 1, Len(t)), S("/"))

\* path.relative(from, to)
PathRelative(from, to) ==
    RelativeOf(Segments(from), Segments(to), CommonPrefixLen(Segments(from), Segments(to)))

(***************************************************************************)
(* The file system: a function from paths to nodes.  A directory holds     *)
(* the names of its entries in creation order; a file holds its bytes.     *)
(* The working directory is the path ".".                                  *)
(***************************************************************************)

DirNode(entries) == [kind |-> "dir", entries |-> entries, data |-> <<>>]
FileNode(data) == [kind |-> "file", entries |-> <<>>, data |-> data]

EmptyFs == (S(".") :> DirNode(<<>>))

\* fs.existsSync: a symbolic link to nothing (kind "dangling") does not
\* exist for it.
ExistsSync(f, p) == p \in DOMAIN f /\ f[p].kind # "dangling"

\* fs.statSync(p).isDirectory()
IsDirectory(f, p) == p \in DOMAIN f /\ f[p].kind = "dir"

\* A file, which the process may read (kind "file") or not (kind "unreadable").
IsFile(f, p) == p \in DOMAIN f /\ f[p].kind \in {"file", "unreadable"}

\* fs.readFileSync(p, 'utf-8') returns: it throws for a directory, for a file
\* the process may not read and for a path that does not exist.
CanRead(f, p) == p \in DOMAIN f /\ f[p].kind = "file"

\* The entry `name` added to directory `dir` (which exists), if not yet there.
AddEntry(f, dir, name) ==
    IF \E i \in 1..Len(f[dir].entries) : f[dir].entries[i] = name THEN f
    ELSE [f EXCEPT ![dir] = DirNode(Append(f[dir].entries, name))]

\* fs.mkdirSync(p, { recursive: true }) can be carried out: no prefix of p is
\* an existing file.
CanMkdirP(f, p) ==
    \A n \in 1..Len(Segments(p)) : ~IsFile(f, PrefixPath(Segments(p), n))

MkdirIn(f, parent, dir, name) ==
    IF dir \in DOMAIN f THEN f ELSE AddEntry(f, parent, name) @@ (dir :> DirNode(<<>>))

RECURSIVE MkdirSegs(_, _, _)
MkdirSegs(f, segs, n) ==
    IF n > Len(segs) THEN f
    ELSE MkdirSegs(MkdirIn(f, IF n = 1 THEN S(".") ELSE PrefixPath(segs, n - 1),
                           PrefixPath(segs, n), segs[n]),
                   segs, n + 1)

\* fs.mkdirSync(p, { recursive: true })
MkdirP(f, p) == MkdirSegs(f, Segments(p), 1)

\* fs.writeFileSync(p, bytes) can be carried out: the parent is a directory
\* and p is not one.
CanWriteFile(f, p) == IsDirectory(f, Dirname(p)) /\ ~IsDirectory(f, p)

\* A write that creates the file and leaves a file that exists as it is.
WriteFileSyncNew(f, p, bytes) ==
    IF p \in DOMAIN f THEN f
    ELSE AddEntry(f, Dirname(p), Basename(p, <<>>)) @@ (p :> FileNode(bytes))

\* fs.writeFileSync(p, bytes): creates the file or replaces its content.
WriteFileSync(f, p, bytes) ==
    IF p \in DOMAIN f
    THEN [f EXCEPT ![p] = FileNode(bytes)]
    ELSE AddEntry(f, Dirname(p), Basename(p, <<>>)) @@ (p :> FileNode(bytes))

(***************************************************************************)
(* The walker: findVueFiles and findCSharpFiles                            *)
(***************************************************************************)

\* A listing that, in the reverse order, leaves out the entry created first.
ReadDirSyncShort(f, dir, order) ==
    IF order = "forward" THEN f[dir].entries
    ELSE [i \in 1..(Len(f[dir].entries) - 1) |-> f[dir].entries[Len(f[dir].entries) + 1 - i]]

\* fs.readdirSync(dir): the names of the entries of dir, in the listing
\* order of the file system (creation order, or its reverse).
ReadDirSync(f, dir, order) ==
    IF order = "forward" THEN f[dir].entries
    ELSE [i \in 1..Len(f[dir].entries) |-> f[dir].entries[Len(f[dir].entries) + 1 - i]]

\* The forEach of the walker over the listed names of one directory: a
\* directory is descended into, a file is kept when its name ends with suffix.
RECURSIVE WalkEntries(_, _, _, _, _)
\* The walker testing the suffix of a name before it asks whether the name
\* is a directory.
WalkEntrySuffixFirst(f, filePath, file, suffix, order) ==
    IF EndsWith(file, suffix) THEN <<filePath>>
    ELSE IF IsDirectory(f, filePath)
    THEN WalkEntries(f, filePath, ReadDirSync(f, filePath, order), suffix, order)
    ELSE <<>>

WalkEntry(f, filePath, file, suffix, order) ==
    IF IsDirectory(f, filePath)
    THEN WalkEntries(f, filePath, ReadDirSync(f, filePath, order), suffix, order)
    ELSE IF EndsWith(file, suffix) THEN <<filePath>> ELSE <<>>

WalkEntries(f, dir, names, suffix, order) ==
    IF names = <<>> THEN <<>>
    ELSE WalkEntry(f, PathJoin(dir, Head(names)), Head(names), suffix, order)
           \o WalkEntries(f, dir, Tail(names), suffix, order)

\* fs.statSync(filePath) throws in the walk of dir: every entry below dir is
\* reached, and a symbolic link to nothing cannot be statted.
WalkThrows(f, dir) ==
    \E p \in DOMAIN f : f[p].kind = "dangling" /\ OccursAt(p, 1, dir \o S("/"))

findVueFiles(f, dir, order) ==
    WalkEntries(f, dir, ReadDirSync(f, dir, order), S(".vue"), order)

findCSharpFiles(f, dir, order) ==
    WalkEntries(f, dir, ReadDirSync(f, dir, order), S(".cs"), order)

(***************************************************************************)
(* Route resolution (frontend)                                             *)
(***************************************************************************)

\* The least element of a non-empty set of positions.
Least(ps) == CHOOSE p \in ps : \A q \in ps : p <= q

\* s.replace(/<ext>$/, '')
StripSuffix(s, ext) ==
    IF EndsWith(s, ext) THEN SubSeq(s, 1, Len(s) - Len(ext)) ELSE s

\* pat occurs in s at p, letter case ignored (the regex flag i).
OccursAtCI(s, p, pat) ==
    /\ p >= 1
    /\ p + Len(pat) - 1 <= Len(s)
    /\ \A k \in 1..Len(pat) : LowerChar(s[p + k - 1]) = LowerChar(pat[k])

\* The length of what /(?:pages|views|screens)\// matches in s at p; 0 if it
\* does not match there.
PagesLen(s, p) ==
    IF OccursAtCI(s, p, S("pages/")) \/ OccursAtCI(s, p, S("views/")) THEN 6
    ELSE IF OccursAtCI(s, p, S("screens/")) THEN 8
    ELSE 0

\* The first position at or after from that holds one of cs; Len + 1 if none.
FirstOf(text, from, cs) ==
    Least({i \in from..Len(text) : text[i] \in cs} \cup {Len(text) + 1})

\* relativePath.match(/(?:pages|views|screens)\/(.*)/i): the capture of the
\* leftmost match, or the path itself when nothing matches.
\* (.*) captures up to the first line terminator.
PagesCapture(s, p) ==
    SubSeq(s, p + PagesLen(s, p), FirstOf(s, p + PagesLen(s, p), {10, 13}) - 1)

\* The pattern anchored at the start of the path: ^(?:pages|views|screens)\/
PagesFromStartOnly(s, hits) == IF 1 \in hits THEN PagesCapture(s, 1) ELSE s

PagesFrom(s, hits) == IF hits = {} THEN s ELSE PagesCapture(s, Least(hits))

PagesMatch(s) == PagesFrom(s, {p \in 1..Len(s) : PagesLen(s, p) > 0})

\* s.replace(/\[([^\]]+)\]/g, ':$1')
RECURSIVE ReplaceParams(_)
ReplaceParam(s, close) ==
    IF Head(s) = 91 /\ close > 2
    THEN <<58>> \o SubSeq(s, 2, close - 1) \o ReplaceParams(SubSeq(s, close + 1, Len(s)))
    ELSE <<Head(s)>> \o ReplaceParams(Tail(s))

ReplaceParams(s) == IF s = <<>> THEN <<>> ELSE ReplaceParam(s, IndexOf(s, S("]"), 2))

\* The replacement without the flag g: s.replace(/\/+/, '/') replaces the
\* first run of slashes only.
CollapseFirstSlashes(s) ==
    Flat([i \in 1..Len(s) |->
            IF /\ s[i] = 47 /\ i < Len(s) /\ s[i + 1] = 47
               /\ \A k \in FirstOf(s, 1, {47})..i : s[k] = 47
            THEN <<>> ELSE <<s[i]>>])

\* s.replace(/\/+/g, '/')
CollapseSlashes(s) ==
    Flat([i \in 1..Len(s) |->
            IF s[i] = 47 /\ i < Len(s) /\ s[i + 1] = 47 THEN <<>> ELSE <<s[i]>>])

\* route.replace(/^\/$/, ''), and then route || '/'
RootIfEmpty(route) == IF route = S("/") \/ route = <<>> THEN S("/") ELSE route

\* inferRouteFromPath. The method chain of line 115 to 119 is applied to
\* relativePath; its result is appended to '/'.
inferRouteFromPath(sourcePath, vueFilePath) ==
    RootIfEmpty(
      CollapseSlashes(
        S("/") \o StripSuffix(
          ReplaceParams(
            StripSuffix(
              ToLowerCase(
                PagesMatch(
                  ReplaceChar(StripSuffix(PathRelative(sourcePath, vueFilePath), S(".vue")),
                              92, S("/")))),
              S("/index"))),
          S("/home"))))

(***************************************************************************)
(* extractRouteFromRouter builds two regular expressions around the name   *)
(* of the component and its path relative to the router file, which are    *)
(* put into the expression source as they are.  The model reads such a     *)
(* name as a regular expression over these elements: "." (any character    *)
(* but a line terminator), "[...]" (a class of the characters listed) and  *)
(* literal characters; an unterminated class or an unbalanced parenthesis  *)
(* makes new RegExp throw.  The names of the model hold no other           *)
(* metacharacter.                                                          *)
(***************************************************************************)

Quotes == {34, 39}

RECURSIVE ParsePattern(_)
ParseClass(src, close) ==
    IF Head(src) = 46
    THEN <<[kind |-> "any", chars |-> {}]>> \o ParsePattern(Tail(src))
    ELSE IF Head(src) = 91 /\ close > 0
    THEN <<[kind |-> "class", chars |-> {src[i] : i \in 2..(close - 1)}]>>
           \o ParsePattern(SubSeq(src, close + 1, Len(src)))
    ELSE <<[kind |-> "lit", chars |-> {Head(src)}]>> \o ParsePattern(Tail(src))

ParsePattern(src) ==
    IF src = <<>> THEN <<>> ELSE ParseClass(src, IndexOf(src, S("]"), 2))

Count(s, c) == Cardinality({i \in 1..Len(s) : s[i] = c})

\* An opening bracket outside a class that no closing bracket follows.
RECURSIVE UnterminatedClass(_)
UnterminatedFrom(src, close) ==
    IF Head(src) # 91 THEN UnterminatedClass(Tail(src))
    ELSE IF close = 0 THEN TRUE
    ELSE UnterminatedClass(SubSeq(src, close + 1, Len(src)))

UnterminatedClass(src) ==
    IF src = <<>> THEN FALSE ELSE UnterminatedFrom(src, IndexOf(src, S("]"), 2))

\* new RegExp(...) throws a SyntaxError for this interpolated text.
PatternThrows(src) == UnterminatedClass(src) \/ Count(src, 40) # Count(src, 41)

\* The elements match the text at position n.
MatchElems(text, n, elems) ==
    /\ n >= 1
    /\ n + Len(elems) - 1 <= Len(text)
    /\ \A k \in 1..Len(elems) :
          IF elems[k].kind = "any" THEN text[n + k - 1] \notin {10, 13}
          ELSE LowerChar(text[n + k - 1]) \in {LowerChar(x) : x \in elems[k].chars}

\* \s*: the first position at or after from that holds no white space.
SkipSpaces(text, from) ==
    Least({i \in from..Len(text) : text[i] \notin {9, 10, 11, 12, 13, 32, 160}}
            \cup {Len(text) + 1})

\* The tail of routeRegex with .* in place of [^}]*: the match may run over
\* the closing brace of the entry.
RouteTailOverBrace(text, close, limit, name, relative) ==
    \E c \in (close + 1)..Len(text) :
       /\ OccursAtCI(text, c, S("component:"))
       /\ \E n \in (c + 10)..Len(text) :
             MatchElems(text, n, name) \/ MatchElems(text, n, relative)

\* [^}]*component:[^}]*(?:<name>|<relative>) matches after the closing quote;
\* limit is the position of the first closing brace after it.
RouteTail(text, close, limit, name, relative) ==
    \E c \in (close + 1)..limit :
       /\ OccursAtCI(text, c, S("component:"))
       /\ \E n \in (c + 10)..limit :
             MatchElems(text, n, name) \/ MatchElems(text, n, relative)

\* import\(['"]\.\.?/ matches at m: the position after it, or 0.
ImportAt(text, m) ==
    IF /\ OccursAtCI(text, m, S("import("))
       /\ m + 7 <= Len(text)
       /\ text[m + 7] \in Quotes
    THEN IF OccursAt(text, m + 8, S("./")) THEN m + 10
         ELSE IF OccursAt(text, m + 8, S("../")) THEN m + 11
         ELSE 0
    ELSE 0

\* [^'"]*<name> matches from position from on.
NameAfterImport(text, from, name) ==
    from > 0 /\ \E n \in from..FirstOf(text, from, Quotes) : MatchElems(text, n, name)

\* [^}]*component:[^}]*import\(['"]\.\.?/[^'"]*<name> matches after the
\* closing quote.
LazyTail(text, close, limit, name) ==
    \E c \in (close + 1)..limit :
       /\ OccursAtCI(text, c, S("component:"))
       /\ \E m \in (c + 10)..limit : NameAfterImport(text, ImportAt(text, m), name)

\* routeRegex (kind "route") or lazyLoadRegex (kind "lazy") matches at p:
\*   path:\s*['"]([^'"]+)['"][^}]*component:[^}]*(?:<name>|<relative>)
\*   path:\s*['"]([^'"]+)['"][^}]*component:[^}]*import\(['"]\.\.?/[^'"]*<name>
RegexBetween(kind, text, p, open, close, name, relative) ==
    /\ OccursAtCI(text, p, S("path:"))
    /\ open <= Len(text)
    /\ text[open] \in Quotes
    /\ close <= Len(text)
    /\ close > open + 1
    /\ IF kind = "route"
       THEN RouteTail(text, close, FirstOf(text, close + 1, {125}), name, relative)
       ELSE LazyTail(text, close, FirstOf(text, close + 1, {125}), name)

RegexFrom(kind, text, p, open, name, relative) ==
    RegexBetween(kind, text, p, open, FirstOf(text, open + 1, Quotes), name, relative)

RegexAt(kind, text, p, name, relative) ==
    RegexFrom(kind, text, p, SkipSpaces(text, p + 5), name, relative)

\* The capture group ([^'"]+) of a match at p.
PathCapture(text, p) ==
    SubSeq(text, SkipSpaces(text, p + 5) + 1,
           FirstOf(text, SkipSpaces(text, p + 5) + 1, Quotes) - 1)

\* routerContent.match(regex): the positions at which the regex matches.
Matches(kind, text, name, relative) ==
    {p \in 1..Len(text) : RegexAt(kind, text, p, name, relative)}

NoRoute == [found |-> FALSE, route |-> <<>>]
FoundRoute(r) == [found |-> TRUE, route |-> r]

\* match[1] of the leftmost match of routeRegex; without one, lazyMatch[1]
\* of the leftmost match of lazyLoadRegex; without one, null.
FirstCapture(text, hits, lazyHits) ==
    IF hits # {} THEN FoundRoute(PathCapture(text, Least(hits)))
    ELSE IF lazyHits # {} THEN FoundRoute(PathCapture(text, Least(lazyHits)))
    ELSE NoRoute

\* The try block of extractRouteFromRouter for a router file that was read.
MatchSources(text, componentName, relativeFilePath) ==
    IF PatternThrows(componentName) \/ PatternThrows(relativeFilePath) THEN NoRoute
    ELSE FirstCapture(text,
           Matches("route", text, ParsePattern(componentName), ParsePattern(relativeFilePath)),
           Matches("lazy", text, ParsePattern(componentName), ParsePattern(relativeFilePath)))

MatchRouter(routerContent, routerFile, vueFilePath) ==
    MatchSources(routerContent,
                 Basename(vueFilePath, S(".vue")),
                 StripSuffix(ReplaceChar(PathRelative(Dirname(routerFile), vueFilePath),
                                         92, S("/")),
                             S(".vue")))

\* The router files looked for, in this order.
RouterFiles ==
    << S("router/index.js"), S("src/router/index.js"), S("router.js"),
       S("src/router.js"), S("routes.js"), S("src/routes.js") >>

\* A router file that exists but cannot be read (a directory, or a file the
\* process may not read) gives the warning of the catch block and no route.
ReadRouter(f, routerFile, vueFilePath) ==
    IF ~CanRead(f, routerFile) THEN NoRoute
    ELSE MatchRouter(Utf8Decode(f[routerFile].data), routerFile, vueFilePath)

\* The candidates read one after the other until one gives a route.
RECURSIVE FirstMatching(_, _, _, _)
FirstMatching(f, sourcePath, existing, vueFilePath) ==
    IF existing = {} THEN NoRoute
    ELSE IF ReadRouter(f, PathJoin(sourcePath, RouterFiles[Least(existing)]), vueFilePath).found
    THEN ReadRouter(f, PathJoin(sourcePath, RouterFiles[Least(existing)]), vueFilePath)
    ELSE FirstMatching(f, sourcePath, existing \ {Least(existing)}, vueFilePath)

FirstExisting(f, sourcePath, existing, vueFilePath) ==
    IF existing = {} THEN NoRoute
    ELSE ReadRouter(f, PathJoin(sourcePath, RouterFiles[Least(existing)]), vueFilePath)

\* extractRouteFromRouter: the first router file that exists is the only one
\* read.
extractRouteFromRouter(f, sourcePath, vueFilePath) ==
    FirstExisting(f, sourcePath,
                  {i \in 1..Len(RouterFiles) :
                      ExistsSync(f, PathJoin(sourcePath, RouterFiles[i]))},
                  vueFilePath)

\* The fallback taken also when the router file gave a route.
AlwaysInferred(routerRoute, sourcePath, vueFilePath) ==
    inferRouteFromPath(sourcePath, vueFilePath)

\* if (routerRoute) return routerRoute; return inferRouteFromPath(...)
RouterOrInferred(routerRoute, sourcePath, vueFilePath) ==
    IF routerRoute.found /\ routerRoute.route # <<>> THEN routerRoute.route
    ELSE inferRouteFromPath(sourcePath, vueFilePath)

\* getRouteForVueFile
getRouteForVueFile(f, sourcePath, vueFilePath) ==
    RouterOrInferred(extractRouteFromRouter(f, sourcePath, vueFilePath),
                     sourcePath, vueFilePath)

\* routeFilename || path.basename(vueFilePath, '.vue').toLowerCase()
BaseNameOr(routeFilename, vueFilePath) ==
    IF routeFilename # <<>> THEN routeFilename
    ELSE ToLowerCase(Basename(vueFilePath, S(".vue")))

\* The route with its leading slash left in place.
KeepLeadingSlash(route) == route

\* route.replace(/^\//, '')
StripLeadingSlash(route) ==
    IF route # <<>> /\ Head(route) = 47 THEN Tail(route) ELSE route

\* generateOutputFilename with the suffix of the source files instead of
\* the suffix of the artifacts.
generateOutputFilenameVueKeepsSuffix(vueFilePath, route) ==
    BaseNameOr(ToLowerCase(ReplaceChar(ReplaceChar(StripLeadingSlash(route), 47, S("-")),
                                       58, <<>>)),
               vueFilePath)
      \o S(".vue")

\* generateOutputFilename of frontend-context.js
generateOutputFilenameVue(vueFilePath, route) ==
    BaseNameOr(ToLowerCase(ReplaceChar(ReplaceChar(StripLeadingSlash(route), 47, S("-")),
                                       58, <<>>)),
               vueFilePath)
      \o S(".vue.txt")

(***************************************************************************)
(* Classification and naming (backend)                                     *)
(***************************************************************************)

\* The heuristics with line 60 read as if || bound tighter than &&.
IsModelTextOrFirst(content) ==
    /\ \/ Includes(content, S("[Key]"))
       \/ Includes(content, S("[Required]"))
       \/ Includes(content, S("[ForeignKey"))
       \/ Includes(content, S("[Table"))
       \/ Includes(content, S("[Column"))
       \/ (/\ Includes(content, S("public virtual"))
           /\ (Includes(content, S("ICollection<")) \/ Includes(content, S("List<"))))
       \/ Includes(content, S("public int Id { get; set; }"))
       \/ Includes(content, S("public Guid Id { get; set; }"))
       \/ Includes(content, S("DbSet<"))
    /\ Includes(content, S("Context"))

\* The heuristics of isLikelyEFModel on the text of a file.
IsModelText(content) ==
    \/ Includes(content, S("[Key]"))
    \/ Includes(content, S("[Required]"))
    \/ Includes(content, S("[ForeignKey"))
    \/ Includes(content, S("[Table"))
    \/ Includes(content, S("[Column"))
    \/ (/\ Includes(content, S("public virtual"))
        /\ (Includes(content, S("ICollection<")) \/ Includes(content, S("List<"))))
    \/ Includes(content, S("public int Id { get; set; }"))
    \/ Includes(content, S("public Guid Id { get; set; }"))
    \/ (Includes(content, S("DbSet<")) /\ Includes(content, S("Context")))

\* isLikelyEFModel
isLikelyEFModel(f, filePath) ==
    \/ IsModelText(Utf8Decode(f[filePath].data))
    \/ Includes(filePath, S("Models"))
    \/ Includes(filePath, S("Entities"))
    \/ Includes(filePath, S("Domain"))

\* The first position at or after from that holds no word character (\w).
WordEnd(text, from) ==
    Least({i \in from..Len(text) :
             ~(IsUpper(text[i]) \/ IsLower(text[i]) \/ IsDigit(text[i]) \/ text[i] = 95)}
            \cup {Len(text) + 1})

\* \s+(\w+) matches at p: the position of the capture, or 0.
NameAfter(text, p, n) == IF n > p /\ WordEnd(text, n) > n THEN n ELSE 0

\* \s+class\s+(\w+) matches at p: the position of the capture, or 0.
ClassAfter(text, p, c) ==
    IF c > p /\ OccursAt(text, c, S("class"))
    THEN NameAfter(text, c + 5, SkipSpaces(text, c + 5))
    ELSE 0

\* /public\s+class\s+(\w+)/ matches at p: the position of its capture, or 0.
ClassNameAt(text, p) ==
    IF OccursAt(text, p, S("public"))
    THEN ClassAfter(text, p + 6, SkipSpaces(text, p + 6))
    ELSE 0

WordAt(text, n) == SubSeq(text, n, WordEnd(text, n) - 1)

\* classMatch[1] of the leftmost match, and no name without a match.
ClassNameOrNone(content, hits, default) ==
    IF hits # {} THEN WordAt(content, ClassNameAt(content, Least(hits))) ELSE <<>>

\* classMatch[1] of the leftmost match, or the default name.
ClassNameOr(content, hits, default) ==
    IF hits # {} THEN WordAt(content, ClassNameAt(content, Least(hits))) ELSE default

\* classMatch[1] of the rightmost match, or the default name.
ClassNameInLast(content, default) ==
    LET hits == {p \in 1..Len(content) : ClassNameAt(content, p) > 0}
    IN IF hits = {} THEN default
       ELSE WordAt(content, ClassNameAt(content, CHOOSE p \in hits : \A q \in hits : q <= p))

ClassNameIn(content, default) ==
    ClassNameOr(content, {p \in 1..Len(content) : ClassNameAt(content, p) > 0}, default)

\* extractModelName: the file exists and can be read when it is called.
extractModelName(f, filePath) ==
    ClassNameIn(Utf8Decode(f[filePath].data), Basename(filePath, S(".cs")))

\* A hyphen before every upper-case letter but the first character.
HyphenateUpper(s) ==
    Flat([i \in 1..Len(s) |->
            IF i < Len(s) /\ IsUpper(s[i + 1]) THEN <<s[i], 45>> ELSE <<s[i]>>])

\* s.replace(/([a-z])([A-Z])/g, '$1-$2')
HyphenateCamel(s) ==
    Flat([i \in 1..Len(s) |->
            IF i < Len(s) /\ IsLower(s[i]) /\ IsUpper(s[i + 1])
            THEN <<s[i], 45>> ELSE <<s[i]>>])

\* The output file name made of the name of the source file instead of the
\* model name.
generateOutputFilenameCsOfFile(filePath, modelName) ==
    ToLowerCase(HyphenateCamel(Basename(filePath, S(".cs")))) \o S(".cs.txt")

\* generateOutputFilename of backend-context.js
generateOutputFilenameCs(filePath, modelName) ==
    ToLowerCase(HyphenateCamel(modelName)) \o S(".cs.txt")

\* array.filter(pred) for the classifier.
RECURSIVE FilterModels(_, _)
FilterModels(f, files) ==
    IF files = <<>> THEN <<>>
    ELSE (IF isLikelyEFModel(f, Head(files)) THEN <<Head(files)>> ELSE <<>>)
           \o FilterModels(f, Tail(files))

(***************************************************************************)
(* The artifact of one source file                                         *)
(***************************************************************************)

\* The header of a frontend artifact (frontend-context.js, line 204).
VueHeader(relativeFilePath, route) ==
    S("// FILE: ") \o relativeFilePath \o S("\n// ROUTE: ") \o route \o S("\n\n")

\* The header of a backend artifact (backend-context.js, line 154).
ModelHeader(relativeFilePath, modelName) ==
    S("// FILE: ") \o relativeFilePath \o S("\n// MODEL: ") \o modelName
      \o S(" (Entity Framework)\n\n")

\* What fs.writeFileSync(outputFilePath, header + content) puts on disk for a
\* source file read with fs.readFileSync(file, 'utf-8').
ArtifactBytes(header, sourceBytes) == Utf8Encode(header \o Utf8Decode(sourceBytes))

(***************************************************************************)
(* The source trees and invocations the model is run on                    *)
(***************************************************************************)

\* The file at path with these bytes, its directories created as needed.
WithFile(f, path, bytes) == WriteFileSync(MkdirP(f, Dirname(path)), path, bytes)

\* The file system f with the files of a list of <<path, content>>; a third
\* component gives the kind of a node that is not a readable file.
RECURSIVE MakeFs(_, _)
MakeFs(f, files) ==
    IF files = <<>> THEN f
    ELSE MakeFs(IF Len(Head(files)) = 2
                THEN WithFile(f, S(Head(files)[1]), Head(files)[2])
                ELSE [WithFile(f, S(Head(files)[1]), Head(files)[2])
                        EXCEPT ![S(Head(files)[1])].kind = Head(files)[3]],
                Tail(files))

VueText == S("<template/>")

\* The route entries of the router file of the model: the path, the quote
\* character around it, and the component, which is referred to by its name
\* or imported lazily from its file.
RouterEntries ==
    << [path |-> S("/"), quote |-> 39, lazy |-> FALSE, ref |-> S("Home")],
       [path |-> S("/dashboard"), quote |-> 39, lazy |-> FALSE, ref |-> S("Dashboard")],
       [path |-> S("/users"), quote |-> 39, lazy |-> FALSE, ref |-> S("UserList")],
       [path |-> S("/about"), quote |-> 34, lazy |-> TRUE, ref |-> S("../views/About.vue")] >>

\* The component reference of a route entry as it stands in the router file.
ComponentText(e) ==
    IF e.lazy THEN S(" () => import('") \o e.ref \o S("') ") ELSE S(" ") \o e.ref \o S(" ")

\* The text of a route entry as it stands in the router file.
EntryText(e) ==
    S(" { path: ") \o <<e.quote>> \o e.path \o <<e.quote>>
      \o S(", component:") \o ComponentText(e) \o S("},\n")

RouterText ==
    S("export default [\n") \o Flat([i \in 1..Len(RouterEntries) |-> EntryText(RouterEntries[i])])
      \o S("]\n")

\* Pages that are routed by their paths: the router file is one the process
\* may not read.
TreePages ==
    << <<"proj/src/router/index.js", RouterText, "unreadable">>,
       <<"proj/pages/users/[id].vue", VueText>>,
       <<"proj/pages/index.vue", S("<p>index</p>")>>,
       <<"proj/admin/pages/Users.vue", S("<p>admin</p>")>>,
       <<"proj/views/reports/home.vue", VueText>>,
       <<"proj/Models/User.cs", S("public class User { [Key] public int Id { get; set; } }")>>,
       <<"proj/readme.md", S("# readme")>> >>

\* A router file, a second router file behind it, routed components, a
\* component the router file does not name and one whose name is no regular
\* expression.
TreeRouter ==
    << <<"proj/router/index.js", RouterText>>,
       <<"proj/router.js", S("{ path: '/nav', component: Nav }")>>,
       <<"proj/views/a(b.vue", VueText>>,
       <<"proj/views/Home.vue", VueText>>,
       <<"proj/views/Dashboard.vue", S("<p>dashboard</p>")>>,
       <<"proj/views/User.vue", S("<p>user</p>")>>,
       <<"proj/views/About.vue", VueText>>,
       <<"proj/components/Nav.vue", VueText>>,
       <<"proj/Data/AppDbContext.cs", S("class AppDbContext { DbSet<User> Users; }")>> >>

\* Source files that are given the same output name, and output files of
\* an earlier run.
TreeCollide ==
    << <<"proj/pages/a.vue", S("<p>pages</p>")>>,
       <<"proj/views/a.vue", S("<p>views</p>")>>,
       <<"proj/Models/A/User.cs", S("public class User { int a; }")>>,
       <<"proj/Models/B/User.cs", S("public class User { int b; }")>>,
       <<"proj/Services/UserService.cs", S("public class UserService { }")>>,
       <<"out/routes/stale.vue.txt", S("stale")>>,
       <<"out/routes/a.vue.txt", S("old")>> >>

\* Content that is not UTF-8 (a Latin-1 e acute, byte 233), content that is
\* (bytes 195 169), a directory named like a Vue file, and a text file named
\* like an artifact.
TreeLatin ==
    << <<"proj/pages/cafe.vue", S("<p>caf") \o <<233>> \o S("</p>")>>,
       <<"proj/pages/menu.vue", S("<p>caf") \o <<195, 169>> \o S("</p>")>>,
       <<"proj/old.vue/c.vue", VueText>>,
       <<"proj/notes.vue.txt", S("notes")>>,
       <<"proj/Entities/Order.cs", S("internal class Order { } // n") \o <<233>> \o S("e")>>,
       <<"proj/Domain/Item.cs.txt", S("item")>> >>

\* Places where the output cannot be written: proj/routes, proj/models and
\* proj/gen are files, out/routes/a.vue.txt and out/models/user.cs.txt
\* directories.
TreeBlocked ==
    << <<"proj/gen", S("x")>>,
       <<"proj/b.vue", VueText>>,
       <<"proj/a.vue", VueText>>,
       <<"proj/Models/Item.cs", S("public class Item { }")>>,
       <<"proj/Models/User.cs", S("public class User { }")>>,
       <<"proj/routes", S("x")>>,
       <<"proj/models", S("x")>>,
       <<"out/routes/a.vue.txt/keep", S("x")>>,
       <<"out/models/user.cs.txt/keep", S("x")>> >>

\* Files the process may not read: a Vue file between two others, and a C#
\* file (with forward listing after, with reverse listing before a model).
TreeLocked ==
    << <<"proj/pages/a.vue", VueText>>,
       <<"proj/pages/secret.vue", VueText, "unreadable">>,
       <<"proj/pages/z.vue", VueText>>,
       <<"proj/Models/User.cs", S("public class User { }")>>,
       <<"proj/Models/Secret.cs", S("public class Secret { }"), "unreadable">> >>

\* A symbolic link to nothing among the source files.
TreeDangling ==
    << <<"proj/pages/a.vue", VueText>>,
       <<"proj/pages/link", <<>>, "dangling">>,
       <<"proj/Models/User.cs", S("public class User { }")>> >>

\* The source paths of the calls: the source root, a path that does not
\* exist, and a path that is a file in one of the trees.
SourcePaths == {S("proj"), S("missing"), S("proj/a.vue")}
OutputPaths == {S("out"), S("proj"), S("proj/gen")}
Orders == {"forward", "reverse"}

\* possiblePythonPaths of bin/cli.js
PossiblePythonPaths ==
    << "python", "python3", "py",
       "C:\\Users\\Jsatl\\AppData\\Local\\Programs\\Python\\Python310\\python.exe",
       "C:\\Users\\Jsatl\\AppData\\Local\\Programs\\Python\\Python311\\python.exe",
       "C:\\Users\\Jsatl\\AppData\\Local\\Programs\\Python\\Python312\\python.exe",
       "C:\\Users\\Jsatl\\AppData\\Local\\Programs\\Python\\Python313\\python.exe",
       "C:\\Program Files\\Python310\\python.exe",
       "C:\\Program Files\\Python311\\python.exe",
       "C:\\Program Files\\Python312\\python.exe",
       "C:\\Program Files\\Python313\\python.exe" >>

\* The machines the tool is started on: the Python executables that run.
Machines == {{}, {"python"}, {"python3"}}

IsFrontend(c) == c.cmd \in {"generateVueContext", "generate-frontend-context"}
IsBackend(c) == c.cmd \in {"generateEFModelContext", "generate-backend-context"}

(***************************************************************************)
(* State                                                                   *)
(***************************************************************************)

VARIABLES
    fs,        \* the file system
    order,     \* the listing order of fs.readdirSync on this file system
    machine,   \* the Python executables that can be started
    platform,  \* "posix" or "win32": the path module the process runs with
    call,      \* the generator call or CLI command being run
    pc,        \* "start", "loaded", "call", "loop", "waiting", "uploading" or "done"
    files,     \* vueFiles / modelFiles of the running generator
    scanned,   \* csharpFiles of the running backend generator
    idx,       \* the index in files of the file the loop processes next
    emitted,   \* one record for each artifact written in this run
    outcome,   \* how the run ended
    procs,     \* the subprocesses started in this run
    messages,  \* what the spinner reported in this run
    runs,      \* the number of runs that have ended before this one
    prev       \* the file system this run started on, the outcome of the last run

vars == <<fs, order, machine, platform, call, pc, files, scanned, idx, emitted, outcome,
          procs, messages, runs, prev>>

\* The number of times the same call is run in succession.
MaxRuns == 2

NoOutcome == [kind |-> "none", code |-> 0, count |-> 0, error |-> "none"]
Returned(n) == [kind |-> "returned", code |-> 0, count |-> n, error |-> "none"]
Thrown(e) == [kind |-> "thrown", code |-> 0, count |-> 0, error |-> e]
Exited(code, n, e) == [kind |-> "exited", code |-> code, count |-> n, error |-> e]

\* The state in which the call c starts on the file system f.
StartsWith(f, o, c, m, p) ==
    /\ fs = f
    /\ order = o
    /\ call = c
    /\ machine = m
    /\ platform = p
    /\ pc = IF c.via = "cli" THEN "start" ELSE "call"
    /\ files = <<>>
    /\ scanned = <<>>
    /\ idx = 1
    /\ emitted = <<>>
    /\ outcome = NoOutcome
    /\ procs = <<>>
    /\ messages = <<>>
    /\ runs = 0
    /\ prev = [fs |-> f, outcome |-> NoOutcome]

\* A run starts on one of the trees, with a call of an exported generator
\* function or a command of the CLI.
Init ==
    \E tree \in {TreePages, TreeRouter, TreeCollide, TreeLatin, TreeBlocked, TreeLocked,
                 TreeDangling},
       o \in Orders,
       c \in [cmd : {"generateVueContext", "generateEFModelContext"}, via : {"lib"},
              sourcePath : SourcePaths, outputPath : OutputPaths]
             \cup [cmd : {"generate-frontend-context", "generate-backend-context",
                          "extract"},
                   via : {"cli"}, sourcePath : SourcePaths, outputPath : OutputPaths] :
       \E m \in (IF c.via = "cli" THEN Machines ELSE {{"python"}}) :
          StartsWith(MakeFs(EmptyFs, tree), o, c, m, "posix")

(***************************************************************************)
(* bin/cli.js                                                              *)
(***************************************************************************)

\* findPythonExecutable: the candidates are started one after the other
\* with --version until one runs.
RECURSIVE ProbesFrom(_, _)
ProbesFrom(works, i) ==
    IF i > Len(PossiblePythonPaths) THEN <<>>
    ELSE <<PossiblePythonPaths[i] \o " --version">>
           \o (IF PossiblePythonPaths[i] \in works THEN <<>> ELSE ProbesFrom(works, i + 1))

findPythonExecutable(works) ==
    IF \E i \in 1..Len(PossiblePythonPaths) : PossiblePythonPaths[i] \in works
    THEN PossiblePythonPaths[CHOOSE i \in 1..Len(PossiblePythonPaths) :
            /\ PossiblePythonPaths[i] \in works
            /\ \A j \in 1..(i - 1) : PossiblePythonPaths[j] \notin works]
    ELSE "null"

\* The module body of bin/cli.js up to program.parse(): the Python
\* executable is looked for, and the process exits with code 1 if none runs.
Startup ==
    /\ pc = "start"
    /\ call.via = "cli"
    /\ procs' = procs \o ProbesFrom(machine, 1)
    /\ IF findPythonExecutable(machine) = "null"
       THEN /\ pc' = "done"
            /\ outcome' = Exited(1, 0, "Python is not installed or not in PATH")
       ELSE /\ pc' = "loaded"
            /\ UNCHANGED outcome
    /\ UNCHANGED <<fs, order, machine, platform, call, files, scanned, idx, emitted,
                   messages, runs, prev>>

\* The action of the extract command without its check of the source
\* directory.
ExtractActionUnchecked ==
    /\ pc = "loaded"
    /\ call.cmd = "extract"
    /\ procs' = Append(procs, "metadata_generator.py")
    /\ pc' = "waiting"
    /\ UNCHANGED <<messages, outcome>>
    /\ UNCHANGED <<fs, order, machine, platform, call, files, scanned, idx, emitted, runs, prev>>

\* The action of the extract command: the source directory is checked, then
\* the Python shell for metadata_generator.py is started.
ExtractAction ==
    /\ pc = "loaded"
    /\ call.cmd = "extract"
    /\ IF ~ExistsSync(fs, call.sourcePath)
       THEN /\ messages' = Append(messages, "fail: Source directory not found")
            /\ outcome' = Exited(1, 0, "Source directory not found")
            /\ pc' = "done"
            /\ UNCHANGED procs
       ELSE /\ procs' = Append(procs, "metadata_generator.py")
            /\ pc' = "waiting"
            /\ UNCHANGED <<messages, outcome>>
    /\ UNCHANGED <<fs, order, machine, platform, call, files, scanned, idx, emitted, runs, prev>>

\* err.message of the error the end callback of a Python shell is called
\* with when the script has ended with an error.
PythonShellErrors == {"process exited with code 1", "ModuleNotFoundError: No module named 'yaml'"}

\* The end callback of the Python shell of extract: the script, which is
\* not part of the model, has ended with or without an error.
ExtractEnd ==
    /\ pc = "waiting"
    /\ call.cmd = "extract"
    /\ \E err \in {"null"} \cup PythonShellErrors :
          IF err # "null"
          THEN /\ messages' = Append(messages, "fail: Error extracting metadata: " \o err)
               /\ outcome' = Exited(1, 0, "Error extracting metadata: " \o err)
          ELSE /\ messages' = Append(messages, "succeed: Metadata extraction complete!")
               /\ outcome' = Exited(0, 0, "none")
    /\ pc' = "done"
    /\ UNCHANGED <<fs, order, machine, platform, call, files, scanned, idx, emitted, procs,
                   runs, prev>>

\* The action of the upload command: the config file is checked, then the
\* Python shell for upload_embeddings.py is started.
UploadAction ==
    /\ pc = "loaded"
    /\ call.cmd = "upload"
    /\ IF ~ExistsSync(fs, call.config)
       THEN /\ messages' = Append(messages, "fail: Config file not found")
            /\ outcome' = Exited(1, 0, "Config file not found")
            /\ pc' = "done"
            /\ UNCHANGED procs
       ELSE /\ procs' = Append(procs, "upload_embeddings.py")
            /\ pc' = "uploading"
            /\ UNCHANGED <<messages, outcome>>
    /\ UNCHANGED <<fs, order, machine, platform, call, files, scanned, idx, emitted, runs, prev>>

\* The end callback of the Python shell of upload.
UploadEnd ==
    /\ pc = "uploading"
    /\ call.cmd = "upload"
    /\ \E err \in {"null"} \cup PythonShellErrors :
          IF err # "null"
          THEN /\ messages' = Append(messages, "fail: Error uploading embeddings: " \o err)
               /\ outcome' = Exited(1, 0, "Error uploading embeddings: " \o err)
          ELSE /\ messages' = Append(messages, "succeed: Embeddings upload complete!")
               /\ outcome' = Exited(0, 0, "none")
    /\ pc' = "done"
    /\ UNCHANGED <<fs, order, machine, platform, call, files, scanned, idx, emitted, procs,
                   runs, prev>>

\* The action of the all command with both checks before the first script.
AllActionChecksBoth ==
    /\ pc = "loaded"
    /\ call.cmd = "all"
    /\ IF ~ExistsSync(fs, call.sourcePath)
       THEN /\ messages' = Append(messages, "fail: Source directory not found")
            /\ outcome' = Exited(1, 0, "Source directory not found")
            /\ pc' = "done"
            /\ UNCHANGED procs
       ELSE IF ~ExistsSync(fs, call.config)
       THEN /\ messages' = Append(messages, "fail: Config file not found")
            /\ outcome' = Exited(1, 0, "Config file not found")
            /\ pc' = "done"
            /\ UNCHANGED procs
       ELSE /\ procs' = Append(procs, "metadata_generator.py")
            /\ pc' = "waiting"
            /\ UNCHANGED <<messages, outcome>>
    /\ UNCHANGED <<fs, order, machine, platform, call, files, scanned, idx, emitted, runs, prev>>

\* The action of the all command: the source directory is checked, then the
\* Python shell for metadata_generator.py is started.
AllAction ==
    /\ pc = "loaded"
    /\ call.cmd = "all"
    /\ IF ~ExistsSync(fs, call.sourcePath)
       THEN /\ messages' = Append(messages, "fail: Source directory not found")
            /\ outcome' = Exited(1, 0, "Source directory not found")
            /\ pc' = "done"
            /\ UNCHANGED procs
       ELSE /\ procs' = Append(procs, "metadata_generator.py")
            /\ pc' = "waiting"
            /\ UNCHANGED <<messages, outcome>>
    /\ UNCHANGED <<fs, order, machine, platform, call, files, scanned, idx, emitted, runs, prev>>

\* The end callback of the extraction shell of all without the exit on an
\* error of the script: the error is reported and the upload goes on.
AllExtractEndContinues ==
    /\ pc = "waiting"
    /\ call.cmd = "all"
    /\ \E err \in {"null"} \cup PythonShellErrors :
          /\ messages' = Append(messages,
                                IF err # "null"
                                THEN "fail: Error extracting metadata: " \o err
                                ELSE "succeed: Metadata extraction complete!")
          /\ procs' = Append(procs, "upload_embeddings.py")
          /\ pc' = "uploading"
          /\ UNCHANGED outcome
    /\ UNCHANGED <<fs, order, machine, platform, call, files, scanned, idx, emitted, runs, prev>>

\* The end callback of the extraction shell of all: an error of the script
\* ends the process; otherwise the step is reported, the config file is
\* checked and the Python shell for upload_embeddings.py is started.
AllExtractEnd ==
    /\ pc = "waiting"
    /\ call.cmd = "all"
    /\ \E err \in {"null"} \cup PythonShellErrors :
          IF err # "null"
          THEN /\ messages' = Append(messages, "fail: Error extracting metadata: " \o err)
               /\ outcome' = Exited(1, 0, "Error extracting metadata: " \o err)
               /\ pc' = "done"
               /\ UNCHANGED procs
          ELSE IF ~ExistsSync(fs, call.config)
          THEN /\ messages' = messages \o <<"succeed: Metadata extraction complete!",
                                             "fail: Config file not found">>
               /\ outcome' = Exited(1, 0, "Config file not found")
               /\ pc' = "done"
               /\ UNCHANGED procs
          ELSE /\ messages' = Append(messages, "succeed: Metadata extraction complete!")
               /\ procs' = Append(procs, "upload_embeddings.py")
               /\ pc' = "uploading"
               /\ UNCHANGED outcome
    /\ UNCHANGED <<fs, order, machine, platform, call, files, scanned, idx, emitted, runs, prev>>

\* The end callback of the upload shell of all.
AllUploadEnd ==
    /\ pc = "uploading"
    /\ call.cmd = "all"
    /\ \E err \in {"null"} \cup PythonShellErrors :
          IF err # "null"
          THEN /\ messages' = Append(messages, "fail: Error uploading embeddings: " \o err)
               /\ outcome' = Exited(1, 0, "Error uploading embeddings: " \o err)
          ELSE /\ messages' = messages \o <<"succeed: Embeddings upload complete!",
                                             "log: Onboarding Assistant workflow completed successfully!">>
               /\ outcome' = Exited(0, 0, "none")
    /\ pc' = "done"
    /\ UNCHANGED <<fs, order, machine, platform, call, files, scanned, idx, emitted, procs,
                   runs, prev>>

\* How a generator run ends when an exception leaves the generator: the
\* caller of the exported function gets it; the CLI action catches it,
\* reports it and exits with code 1.
Fails(error) ==
    /\ pc' = "done"
    /\ IF call.via = "cli"
       THEN /\ outcome' = Exited(1, 0, error)
            /\ messages' = Append(messages, "fail: " \o error)
       ELSE /\ outcome' = Thrown(error)
            /\ UNCHANGED messages

\* How a generator run ends when the generator returns n.
Succeeds(n) ==
    /\ pc' = "done"
    /\ IF call.via = "cli"
       THEN /\ outcome' = Exited(0, n, "none")
            /\ messages' = Append(messages, "succeed: context generation complete")
       ELSE /\ outcome' = Returned(n)
            /\ UNCHANGED messages

\* The actions of generate-frontend-context and generate-backend-context up
\* to the call of the generator: the prompt accepts a source path only if it
\* exists, and the output directory is created.
GenerateAction ==
    /\ pc = "loaded"
    /\ IsFrontend(call) \/ IsBackend(call)
    /\ ExistsSync(fs, call.sourcePath)
    /\ IF ExistsSync(fs, call.outputPath)
       THEN pc' = "call" /\ UNCHANGED <<fs, outcome, messages>>
       ELSE IF CanMkdirP(fs, call.outputPath)
       THEN pc' = "call" /\ fs' = MkdirP(fs, call.outputPath)
              /\ UNCHANGED <<outcome, messages>>
       ELSE Fails("mkdir") /\ UNCHANGED fs
    /\ UNCHANGED <<order, machine, platform, call, files, scanned, idx, emitted, procs, runs, prev>>

(***************************************************************************)
(* lib/frontend-context.js: generateVueContext                             *)
(***************************************************************************)

routesOutputPath == PathJoin(call.outputPath, S("routes"))

\* generateVueContext up to its loop: the source path is checked, the
\* routes directory created and the Vue files are found.
generateVueContextEnter ==
    /\ pc = "call"
    /\ IsFrontend(call)
    /\ IF ~ExistsSync(fs, call.sourcePath)
       THEN Fails("Source path does not exist") /\ UNCHANGED <<fs, files>>
       ELSE IF ~ExistsSync(fs, routesOutputPath) /\ ~CanMkdirP(fs, routesOutputPath)
       THEN Fails("mkdir") /\ UNCHANGED <<fs, files>>
       ELSE IF ~IsDirectory(fs, call.sourcePath)
       THEN /\ fs' = IF ExistsSync(fs, routesOutputPath) THEN fs
                     ELSE MkdirP(fs, routesOutputPath)
            /\ Fails("readdir") /\ UNCHANGED files
       ELSE IF WalkThrows(fs, call.sourcePath)
       THEN /\ fs' = IF ExistsSync(fs, routesOutputPath) THEN fs
                     ELSE MkdirP(fs, routesOutputPath)
            /\ Fails("stat") /\ UNCHANGED files
       ELSE /\ fs' = IF ExistsSync(fs, routesOutputPath) THEN fs
                     ELSE MkdirP(fs, routesOutputPath)
            /\ files' = findVueFiles(fs', call.sourcePath, order)
            /\ pc' = "loop"
            /\ UNCHANGED <<outcome, messages>>
    /\ idx' = 1
    /\ UNCHANGED <<order, machine, platform, call, scanned, emitted, procs, runs, prev>>

\* path.relative(sourcePath, file).replace(/\\/g, '/')
RelativeFilePath(file) == ReplaceChar(PathRelative(call.sourcePath, file), 92, S("/"))

\* path.win32.normalize of a relative path, given as the segments between
\* its separators: empty segments and "." are dropped, ".." takes the
\* segment before it away and stands where there is none.
RECURSIVE Win32Normalize(_, _)
Win32Normalize(segs, out) ==
    IF segs = <<>> THEN out
    ELSE IF Head(segs) \in {<<>>, S(".")} THEN Win32Normalize(Tail(segs), out)
    ELSE IF Head(segs) = S("..") /\ out # <<>> /\ out[Len(out)] # S("..")
    THEN Win32Normalize(Tail(segs), SubSeq(out, 1, Len(out) - 1))
    ELSE Win32Normalize(Tail(segs), Append(out, Head(segs)))

\* outputFilePath: path.join(routesOutputPath, outputFilename). With the
\* win32 path module a backslash separates segments as a slash does and the
\* joined path is normalized; the paths of the model keep / for either
\* separator. With the posix module a backslash is a character of a name,
\* and a name without a slash that ends in .txt leaves nothing to normalize.
OutputFilePath(dir, outputFilename) ==
    IF platform = "win32"
    THEN Join(Win32Normalize(Split(ReplaceChar(dir \o S("/") \o outputFilename, 92, S("/")),
                                   47), <<>>), S("/"))
    ELSE PathJoin(dir, outputFilename)

\* The loop body with a write that, when it throws, removes what the run
\* has written.
EmitOrRollBack(dir, file, label, outputFilename, header) ==
    IF CanWriteFile(fs, OutputFilePath(dir, outputFilename))
    THEN /\ fs' = WriteFileSync(fs, OutputFilePath(dir, outputFilename),
                                ArtifactBytes(header, fs[file].data))
         /\ emitted' = Append(emitted,
                              [source |-> file, label |-> label, name |-> outputFilename,
                               path |-> OutputFilePath(dir, outputFilename),
                               sourceBytes |-> fs[file].data])
         /\ idx' = idx + 1
         /\ UNCHANGED <<pc, outcome, messages>>
    ELSE /\ Fails("write")
         /\ fs' = prev.fs
         /\ UNCHANGED <<emitted, idx>>

\* fs.writeFileSync(outputFilePath, header + content) and the end of one
\* iteration: the artifact of the source file is written into the directory
\* dir under the name outputFilename, and a record of it is kept; an
\* exception of the write leaves the generator.
Emit(dir, file, label, outputFilename, header) ==
    IF CanWriteFile(fs, OutputFilePath(dir, outputFilename))
    THEN /\ fs' = WriteFileSync(fs, OutputFilePath(dir, outputFilename),
                                ArtifactBytes(header, fs[file].data))
         /\ emitted' = Append(emitted,
                              [source |-> file, label |-> label, name |-> outputFilename,
                               path |-> OutputFilePath(dir, outputFilename),
                               sourceBytes |-> fs[file].data])
         /\ idx' = idx + 1
         /\ UNCHANGED <<pc, outcome, messages>>
    ELSE /\ Fails("write")
         /\ UNCHANGED <<fs, emitted, idx>>

\* The loop body writing the artifact over the Vue file itself.
EmitVueInPlace(vueFile, route) ==
    Emit(Dirname(vueFile), vueFile, route, Basename(vueFile, <<>>),
         VueHeader(RelativeFilePath(vueFile), route))

EmitVue(vueFile, route) ==
    Emit(PathJoin(call.outputPath, S("routes")), vueFile, route,
         generateOutputFilenameVue(vueFile, route),
         VueHeader(RelativeFilePath(vueFile), route))

\* One iteration of the loop of generateVueContext; the read of the Vue
\* file, the only call of the iteration before the write that can throw,
\* ends the generator when it throws.
ProcessVueFile ==
    /\ pc = "loop"
    /\ IsFrontend(call)
    /\ idx <= Len(files)
    /\ IF CanRead(fs, files[idx])
       THEN EmitVue(files[idx], getRouteForVueFile(fs, call.sourcePath, files[idx]))
       ELSE Fails("read") /\ UNCHANGED <<fs, emitted, idx>>
    /\ UNCHANGED <<order, machine, platform, call, files, scanned, procs, runs, prev>>

\* The return of generateVueContext.
generateVueContextReturn ==
    /\ pc = "loop"
    /\ IsFrontend(call)
    /\ idx > Len(files)
    /\ Succeeds(Len(files))
    /\ UNCHANGED <<fs, order, machine, platform, call, files, scanned, idx, emitted, procs,
                   runs, prev>>

(***************************************************************************)
(* lib/backend-context.js: generateEFModelContext                          *)
(***************************************************************************)

modelsOutputPath == PathJoin(call.outputPath, S("models"))

\* generateEFModelContext up to its loop: the models path is checked, the
\* models directory created, the C# files found and classified; the
\* classifier reads every C# file and does not catch what the read throws.
generateEFModelContextEnter ==
    /\ pc = "call"
    /\ IsBackend(call)
    /\ IF ~ExistsSync(fs, call.sourcePath)
       THEN Fails("Models path does not exist") /\ UNCHANGED <<fs, files, scanned>>
       ELSE IF ~ExistsSync(fs, modelsOutputPath) /\ ~CanMkdirP(fs, modelsOutputPath)
       THEN Fails("mkdir") /\ UNCHANGED <<fs, files, scanned>>
       ELSE IF ~IsDirectory(fs, call.sourcePath)
       THEN /\ fs' = IF ExistsSync(fs, modelsOutputPath) THEN fs
                     ELSE MkdirP(fs, modelsOutputPath)
            /\ Fails("readdir") /\ UNCHANGED <<files, scanned>>
       ELSE IF WalkThrows(fs, call.sourcePath)
       THEN /\ fs' = IF ExistsSync(fs, modelsOutputPath) THEN fs
                     ELSE MkdirP(fs, modelsOutputPath)
            /\ Fails("stat") /\ UNCHANGED <<files, scanned>>
       ELSE /\ fs' = IF ExistsSync(fs, modelsOutputPath) THEN fs
                     ELSE MkdirP(fs, modelsOutputPath)
            /\ scanned' = findCSharpFiles(fs', call.sourcePath, order)
            /\ IF \E i \in 1..Len(scanned') : ~CanRead(fs', scanned'[i])
               THEN Fails("read") /\ UNCHANGED files
               ELSE /\ files' = FilterModels(fs', scanned')
                    /\ pc' = "loop"
                    /\ UNCHANGED <<outcome, messages>>
    /\ idx' = 1
    /\ UNCHANGED <<order, machine, platform, call, emitted, procs, runs, prev>>

EmitModel(modelFile, modelName) ==
    Emit(PathJoin(call.outputPath, S("models")), modelFile, modelName,
         generateOutputFilenameCs(modelFile, modelName),
         ModelHeader(RelativeFilePath(modelFile), modelName))

\* One iteration of the loop of generateEFModelContext; the classifier has
\* read every model file before the loop, so the reads of the iteration
\* (extractModelName, line 150) return.
ProcessModelFile ==
    /\ pc = "loop"
    /\ IsBackend(call)
    /\ idx <= Len(files)
    /\ EmitModel(files[idx], extractModelName(fs, files[idx]))
    /\ UNCHANGED <<order, machine, platform, call, files, scanned, procs, runs, prev>>

\* The return of generateEFModelContext with the number of C# files scanned.
generateEFModelContextReturnScanned ==
    /\ pc = "loop"
    /\ IsBackend(call)
    /\ idx > Len(files)
    /\ Succeeds(Len(scanned))
    /\ UNCHANGED <<fs, order, machine, platform, call, files, scanned, idx, emitted, procs,
                   runs, prev>>

\* The return of generateEFModelContext.
generateEFModelContextReturn ==
    /\ pc = "loop"
    /\ IsBackend(call)
    /\ idx > Len(files)
    /\ Succeeds(Len(files))
    /\ UNCHANGED <<fs, order, machine, platform, call, files, scanned, idx, emitted, procs,
                   runs, prev>>

(***************************************************************************)
(* Running the same call again on what the last run left                   *)
(***************************************************************************)

Rerun ==
    /\ pc = "done"
    /\ runs + 1 < MaxRuns
    /\ runs' = runs + 1
    /\ prev' = [fs |-> fs, outcome |-> outcome]
    /\ pc' = IF call.via = "cli" THEN "start" ELSE "call"
    /\ files' = <<>>
    /\ scanned' = <<>>
    /\ idx' = 1
    /\ emitted' = <<>>
    /\ outcome' = NoOutcome
    /\ procs' = <<>>
    /\ messages' = <<>>
    /\ UNCHANGED <<fs, order, machine, platform, call>>

Next ==
    \/ Startup
    \/ ExtractAction
    \/ ExtractEnd
    \/ GenerateAction
    \/ generateVueContextEnter
    \/ ProcessVueFile
    \/ generateVueContextReturn
    \/ generateEFModelContextEnter
    \/ ProcessModelFile
    \/ generateEFModelContextReturn
    \/ Rerun

Spec == Init /\ [][Next]_vars

(***************************************************************************)
(* Route resolution over a vocabulary of paths: one Vue file under the     *)
(* source root, with and without a router file, run through                *)
(* generateVueContext.                                                     *)
(***************************************************************************)

\* The number of directories between the source root and the Vue file.
MaxDirs == 2

\* Directory names: a page directory, a directory whose name ends in the
\* name of one (in another case), another directory, and a name that ends
\* in a backslash.
DirNames == {"pages", "myViews", "users", "a\\"}

\* File names without the extension: index and home files, a parameter, the
\* components of the router file, a part of one of their names, the empty
\* name and a name that is no regular expression.
Stems == {"index", "Home", "[id]", "Dashboard", "User", "About", "", "a(b"}

\* The Vue file in these directories under proj.
VuePath(dirs, stem) ==
    Flat([i \in 1..(Len(dirs) + 2) |->
            IF i = 1 THEN S("proj")
            ELSE IF i <= Len(dirs) + 1 THEN S("/") \o S(dirs[i - 1])
            ELSE S("/") \o S(stem) \o S(".vue")])

\* The file system with this Vue file and, if routed, the router files.
RouteFs(vuePath, routed) ==
    WithFile(IF routed THEN MakeFs(EmptyFs, <<TreeRouter[1], TreeRouter[2]>>) ELSE EmptyFs,
             vuePath, VueText)

InitRoute ==
    \E dirs \in UNION {[1..n -> DirNames] : n \in 0..MaxDirs}, stem \in Stems, routed \in BOOLEAN :
       StartsWith(RouteFs(VuePath(dirs, stem), routed), "forward",
                  [cmd |-> "generateVueContext", via |-> "lib",
                   sourcePath |-> S("proj"), outputPath |-> S("out")],
                  {"python"}, "posix")

NextRoute ==
    \/ generateVueContextEnter
    \/ ProcessVueFile
    \/ generateVueContextReturn

SpecRoute == InitRoute /\ [][NextRoute]_vars

(***************************************************************************)
(* The walkers over a vocabulary of directory trees: every tree of at most *)
(* MaxEntries of the entries below, run through both generators.           *)
(***************************************************************************)

\* The number of entries a tree is made of.
MaxEntries == 3

\* Files with the two suffixes at three depths, files with other suffixes,
\* a file whose whole name is the suffix, and directories, empty or not,
\* that are named like source files.
TreeEntries ==
    << [path |-> "proj/a.vue", dir |-> FALSE],
       [path |-> "proj/Models/b.cs", dir |-> FALSE],
       [path |-> "proj/d/.vue", dir |-> FALSE],
       [path |-> "proj/d/a.vue.txt", dir |-> FALSE],
       [path |-> "proj/d/e.vue/c.vue", dir |-> FALSE],
       [path |-> "proj/d/e.vue/Models.cs", dir |-> FALSE],
       [path |-> "proj/d/f.cs", dir |-> TRUE],
       [path |-> "proj/g.vue", dir |-> TRUE],
       [path |-> "proj/d/vue", dir |-> FALSE] >>

\* The file system f with the entries whose indices are in chosen, made in
\* the order of TreeEntries from index i on.
RECURSIVE WithEntries(_, _, _)
WithEntries(f, chosen, i) ==
    IF i > Len(TreeEntries) THEN f
    ELSE IF i \notin chosen THEN WithEntries(f, chosen, i + 1)
    ELSE IF TreeEntries[i].dir
    THEN WithEntries(MkdirP(f, S(TreeEntries[i].path)), chosen, i + 1)
    ELSE WithEntries(WithFile(f, S(TreeEntries[i].path), S(TreeEntries[i].path)),
                     chosen, i + 1)

InitWalk ==
    \E chosen \in SUBSET (1..Len(TreeEntries)), o \in Orders,
       cmd \in {"generateVueContext", "generateEFModelContext"} :
       /\ Cardinality(chosen) <= MaxEntries
       /\ StartsWith(WithEntries(MkdirP(EmptyFs, S("proj")), chosen, 1), o,
                     [cmd |-> cmd, via |-> "lib",
                      sourcePath |-> S("proj"), outputPath |-> S("proj/gen")],
                     {"python"}, "posix")

NextWalk ==
    \/ generateVueContextEnter
    \/ ProcessVueFile
    \/ generateVueContextReturn
    \/ generateEFModelContextEnter
    \/ ProcessModelFile
    \/ generateEFModelContextReturn

SpecWalk == InitWalk /\ [][NextWalk]_vars

(***************************************************************************)
(* The backend generator over a vocabulary of C# files: one file, at one   *)
(* of the paths below, made of at most MaxSnippets of the snippets below.  *)
(***************************************************************************)

\* The number of snippets the text of a C# file is made of.
MaxSnippets == 2

\* The texts isLikelyEFModel looks for, class declarations with one and
\* with more white space, a declaration that is not public, and texts that
\* differ from the ones looked for in case or in spacing.
Snippets ==
    << S("[Key]"),
       S("[Required]"),
       S("[ForeignKey(\"Id\")]"),
       S("[Table(\"t\")]"),
       S("[Column(\"c\")]"),
       S("public virtual Customer Owner"),
       S("ICollection<Order> Orders"),
       S("List<Order> Items"),
       S("public int Id { get; set; }"),
       S("public Guid Id { get; set; }"),
       S("DbSet<Order> Orders"),
       S("class AppContext"),
       S("public class OrderItem {"),
       S("public  class\n userDTO_2A {"),
       S("[key] dbset< public int Id { get; }") >>

\* The text of a file made of the snippets whose indices are in chosen.
SnippetText(chosen) ==
    Flat([i \in 1..Len(Snippets) |-> IF i \in chosen THEN Snippets[i] \o S("\n") ELSE <<>>])

\* The paths of the C# file: in a directory the classifier knows, with a
\* name the classifier knows, and in a directory and with a name it does not.
InitModels ==
    \E chosen \in SUBSET (1..Len(Snippets)),
       p \in {"proj/Models/orderItem.cs", "proj/Entities/HTTPServer.cs",
              "proj/Domain/x9Y.cs", "proj/Services/DomainEvent.cs",
              "proj/Services/userDto.cs", "proj/models/a.cs"} :
       /\ Cardinality(chosen) <= MaxSnippets
       /\ StartsWith(WithFile(EmptyFs, S(p), SnippetText(chosen)), "forward",
                     [cmd |-> "generateEFModelContext", via |-> "lib",
                      sourcePath |-> S("proj"), outputPath |-> S("out")],
                     {"python"}, "posix")

NextModels ==
    \/ generateEFModelContextEnter
    \/ ProcessModelFile
    \/ generateEFModelContextReturn

SpecModels == InitModels /\ [][NextModels]_vars

(***************************************************************************)
(* The commands of bin/cli.js that run the Python scripts: extract, upload *)
(* and all, with a source directory and a config file that exist or not.   *)
(***************************************************************************)

InitCli ==
    \E c \in [cmd : {"extract", "upload", "all"}, via : {"cli"},
              sourcePath : SourcePaths, outputPath : OutputPaths,
              config : {S("proj/config/assistant_config.yaml"), S("proj"), S("missing.yaml")}],
       m \in Machines :
       \E tree \in {<< <<"proj/main.py", S("x = 1")>> >>,
                    << <<"proj/main.py", S("x = 1")>>,
                       <<"proj/config/assistant_config.yaml", S("k: v")>> >>} :
          StartsWith(MakeFs(EmptyFs, tree), "forward", c, m, "posix")

NextCli ==
    \/ Startup
    \/ ExtractAction
    \/ ExtractEnd
    \/ UploadAction
    \/ UploadEnd
    \/ AllAction
    \/ AllExtractEnd
    \/ AllUploadEnd

SpecCli == InitCli /\ [][NextCli]_vars

(***************************************************************************)
(* The frontend generator on Windows, over router files whose route paths  *)
(* hold backslashes (a custom parameter pattern of vue-router as in        *)
(* '/user/:id(\\d+)', a path written with backslashes) and ones that hold  *)
(* none: a routed and an unrouted Vue file under proj.                     *)
(***************************************************************************)

InitWin32 ==
    \E route \in {"/", "/a/b", "/users/:id", "/user/:id(\\\\d+)", "/docs\\intro",
                  "/..\\evil", "/..\\\\..\\\\evil"},
       o \in Orders, out \in OutputPaths :
       StartsWith(MakeFs(EmptyFs,
                         << <<"proj/router/index.js",
                              EntryText([path |-> S(route), quote |-> 39, lazy |-> FALSE,
                                         ref |-> S("Home")])>>,
                            <<"proj/views/Home.vue", VueText>>,
                            <<"proj/pages/index.vue", VueText>> >>),
                  o,
                  [cmd |-> "generateVueContext", via |-> "lib",
                   sourcePath |-> S("proj"), outputPath |-> out],
                  {"python"}, "win32")

SpecWin32 == InitWin32 /\ [][NextRoute]_vars

(***************************************************************************)
(* Properties                                                              *)
(***************************************************************************)

\* The record of the artifact written last in this run.
LastEmitted == emitted[Len(emitted)]

\* The positions of the line feeds of a file.
LineFeeds(bytes) == {i \in 1..Len(bytes) : bytes[i] = 10}

\* The file without its first n lines.
DropLines(bytes, n) ==
    LET ends == {i \in LineFeeds(bytes) :
                    Cardinality({j \in LineFeeds(bytes) : j <= i}) = n}
    IN IF ends = {} THEN <<>> ELSE SubSeq(bytes, Least(ends) + 1, Len(bytes))

\* C1: the artifact written for a source file is the header block followed
\* by the content of the source file unchanged: without its first three
\* lines (the two header lines and the blank line) the artifact is exactly
\* the bytes of the source file, whatever they are.
C1_RoundTrip ==
    emitted # <<>> =>
       DropLines(fs[LastEmitted.path].data, 3) = LastEmitted.sourceBytes

\* The second header line the documentation gives for an artifact.
DocumentedLabel == IF IsFrontend(call) THEN S("// ROUTE: ") ELSE S("// MODEL: ")

\* The header block of an artifact as documented.
DocumentedHeader(e) ==
    S("// FILE: ") \o PathRelative(call.sourcePath, e.source) \o S("\n")
      \o DocumentedLabel \o e.label \o S("\n\n")

\* C2: the header of an artifact is two comment lines and a blank line: the
\* line "// FILE: " with the path of the source file relative to the source
\* root, then "// ROUTE: " with the route (frontend) or "// MODEL: " with the
\* model name and nothing after it (backend).
C2_HeaderFormat ==
    emitted # <<>> =>
       SubSeq(fs[LastEmitted.path].data, 1, Len(DocumentedHeader(LastEmitted)))
         = Utf8Encode(DocumentedHeader(LastEmitted))

\* p is the directory dir or lies under it.
IsUnder(p, dir) == p = dir \/ OccursAt(p, 1, dir \o S("/"))

\* What the output directory holds in the file system f: its files and
\* directories, and the content of the files.
OutputDir(f) ==
    [p \in {q \in DOMAIN f : IsUnder(q, call.outputPath)} |->
        [kind |-> f[p].kind, data |-> f[p].data]]

\* C3: running a generator twice in succession with the same source and
\* output directory is idempotent: when the second run has ended, the output
\* directory holds the same files with the same content as when the first
\* run had ended, also when the output directory lies inside the source tree
\* and when several source files are given the same output name.
C3_Idempotent ==
    (pc = "done" /\ runs >= 1) => OutputDir(fs) = OutputDir(prev.fs)

\* A second run has ended that wrote two source files to the same output
\* name, into an output directory inside the source tree.
C3_Witness ==
    /\ pc = "done"
    /\ runs >= 1
    /\ IsUnder(call.outputPath, call.sourcePath)
    /\ \E i, j \in 1..Len(emitted) : i < j /\ emitted[i].path = emitted[j].path

\* What the walker of the running generator returned, and its suffix.
Walked == IF IsFrontend(call) THEN files ELSE scanned
WalkedSuffix == IF IsFrontend(call) THEN S(".vue") ELSE S(".cs")

\* The files below the source root whose names end with the suffix.
SourceFiles ==
    {p \in DOMAIN fs : /\ IsFile(fs, p)
                       /\ p # call.sourcePath
                       /\ IsUnder(p, call.sourcePath)
                       /\ EndsWith(LastOf(Segments(p)), WalkedSuffix)}

\* C4: the list the walker returns holds each file that is reachable from
\* the root and whose name ends with the suffix exactly once, and nothing
\* else: no directory and no file with another suffix.
C4_WalkerExact ==
    pc = "loop" =>
       /\ \A i, j \in 1..Len(Walked) : Walked[i] = Walked[j] => i = j
       /\ {Walked[i] : i \in 1..Len(Walked)} = SourceFiles

\* The walker has returned two files or more, one of them from a directory
\* that is itself named like a source file, and has passed over a file with
\* another suffix.
C4_Witness ==
    /\ pc = "loop"
    /\ Len(Walked) >= 2
    /\ \E i \in 1..Len(Walked) :
          EndsWith(Dirname(Walked[i]), WalkedSuffix) /\ IsDirectory(fs, Dirname(Walked[i]))
    /\ \E p \in DOMAIN fs :
          IsFile(fs, p) /\ IsUnder(p, call.sourcePath) /\ p \notin SourceFiles

\* A generator function or the extract command was called with a source
\* path that does not exist.
MissingSource ==
    /\ ~ExistsSync(fs, call.sourcePath)
    /\ call.via = "lib" \/ call.cmd = "extract"

\* The run has not walked a directory, has not written or created anything,
\* and if it has ended, it has ended in the error outcome.
FailsBeforeTraversal ==
    /\ pc \notin {"loop", "waiting"}
    /\ files = <<>> /\ scanned = <<>> /\ emitted = <<>>
    /\ fs = prev.fs
    /\ pc = "done" =>
          \/ outcome.kind = "thrown"
          \/ outcome.kind = "exited" /\ outcome.code = 1

VersionProbes ==
    {PossiblePythonPaths[i] \o " --version" : i \in 1..Len(PossiblePythonPaths)}

LastRouterRoute == extractRouteFromRouter(fs, call.sourcePath, LastEmitted.source)

\* What path inference gives for it.
LastInferredRoute == inferRouteFromPath(call.sourcePath, LastEmitted.source)

\* The route is the router route if there is one, and else the inferred one.
FirstStageWins(route, routerRoute) ==
    IF routerRoute.found THEN route = routerRoute.route ELSE route = LastInferredRoute

\* C6: route resolution is a two-stage policy, first match wins: the route
\* of a file is the route found by router-file lookup whenever the lookup
\* yields one, and the path-inferred route only when there is no router
\* file or the router file has no matching entry.
C6_RouterFirst ==
    (IsFrontend(call) /\ emitted # <<>>) =>
       FirstStageWins(LastEmitted.label, LastRouterRoute)

\* A file was given the route of the router file, which is not the route
\* inference gives it.
C6_Witness ==
    /\ IsFrontend(call)
    /\ emitted # <<>>
    /\ LastEmitted.label # LastInferredRoute
    /\ LastRouterRoute = FoundRoute(LastEmitted.label)

\* The name and the relative path by which extractRouteFromRouter looks for
\* the source file of the last artifact in the router file.
LastComponentName == Basename(LastEmitted.source, S(".vue"))
LastRelativeName ==
    StripSuffix(PathRelative(PathJoin(call.sourcePath, S("router")), LastEmitted.source),
                S(".vue"))

\* The component of the entry is the component of this name or this path:
\* it is referred to by the name, or imported lazily from the path or from
\* a file of the name.
RefersTo(e, name, relative) ==
    IF e.lazy
    THEN StripSuffix(e.ref, S(".vue")) = relative \/ Basename(e.ref, S(".vue")) = name
    ELSE e.ref = name \/ e.ref = relative

FromEntryOf(routerRoute, name, relative) ==
    routerRoute.found =>
       \E i \in 1..Len(RouterEntries) :
          /\ RouterEntries[i].path = routerRoute.route
          /\ RefersTo(RouterEntries[i], name, relative)

\* C7 as claimed: a route that router-file lookup returns for a file is the
\* path of a route entry whose component reference is the base name of the
\* file or its path relative to the router file, as a plain reference or a
\* lazy import; an entry of a different component is never chosen.
C7_ExactComponent ==
    (IsFrontend(call) /\ emitted # <<>>) =>
       FromEntryOf(LastRouterRoute, LastComponentName, LastRelativeName)

\* The text of the component reference of the entry holds a match, the case
\* of letters ignored, of the name read as a regular expression.
HoldsMatch(text, elems) == \E n \in 1..Len(text) : MatchElems(text, n, elems)
Mentions(e, name) == HoldsMatch(ComponentText(e), ParsePattern(name))

FromEntryMentioning(routerRoute, name, relative) ==
    routerRoute.found =>
       /\ \E i \in 1..Len(RouterEntries) :
             /\ RouterEntries[i].path = routerRoute.route
             /\ Mentions(RouterEntries[i], name) \/ Mentions(RouterEntries[i], relative)
       /\ name = S("Dashboard") => routerRoute.route = S("/dashboard")

\* C7 as amended: a route that router-file lookup returns for a file is the
\* path of a route entry whose component reference contains a match,
\* ignoring case, of the base name of the file or of its path relative to
\* the router file, read as regular expressions; with the entry
\* { path: '/dashboard', component: Dashboard } the route of Dashboard.vue is
\* /dashboard; an entry whose reference contains no such match is never
\* chosen.
C7_MentionedComponent ==
    (IsFrontend(call) /\ emitted # <<>>) =>
       FromEntryMentioning(LastRouterRoute, LastComponentName, LastRelativeName)

\* User.vue was given the route /users of the entry of the component
\* UserList, whose name contains its name.
C7_Witness ==
    /\ IsFrontend(call)
    /\ emitted # <<>>
    /\ LastComponentName = S("User")
    /\ LastEmitted.label = S("/users")
    /\ LastRouterRoute = FoundRoute(S("/users"))

\* The path of the source file of the last artifact relative to the source
\* root, without the extension, and its segments.
LastRelative ==
    ReplaceChar(StripSuffix(PathRelative(call.sourcePath, LastEmitted.source), S(".vue")),
                92, S("/"))
LastStem == ToLowerCase(LastOf(Segments(LastRelative)))

\* A segment [param] becomes :param.
ParamSegment(seg) ==
    IF Len(seg) > 2 /\ seg[1] = 91 /\ seg[Len(seg)] = 93
       /\ \A k \in 2..(Len(seg) - 1) : seg[k] # 93
    THEN <<58>> \o SubSeq(seg, 2, Len(seg) - 1)
    ELSE seg

ParamSegments(segs) == [i \in 1..Len(segs) |-> ParamSegment(segs[i])]

\* The route of a path that is already without its page directory: lower
\* case, parameters converted, behind a slash; repeated slashes are one, and
\* the empty path is the root.
RouteOfSegments(s) ==
    RootIfEmpty(CollapseSlashes(
       S("/") \o Join(ParamSegments(Split(ToLowerCase(s), 47)), S("/"))))

PageDirs == {S("pages"), S("views"), S("screens")}

\* The path without a leading segment pages, views or screens.
WithoutLeadingPageDir(s) ==
    IF Len(Segments(s)) > 1 /\ ToLowerCase(Head(Segments(s))) \in PageDirs
    THEN Join(Tail(Segments(s)), S("/"))
    ELSE s

\* The source file of the last artifact has no route in the router file and
\* is no index or home file.
InferredPlain ==
    /\ IsFrontend(call)
    /\ emitted # <<>>
    /\ LastStem \notin {S("index"), S("home")}
    /\ ~LastRouterRoute.found

\* C8 as claimed: with no router match, the route of a file is its path
\* relative to the source root without the extension and without a leading
\* segment pages, views or screens (a leading one only, every other
\* directory segment is kept), in lower case, each segment [param] turned
\* into :param; src/pages/users/[id].vue under src gives /users/:id.
C8_LeadingSegmentOnly ==
    InferredPlain =>
       /\ LastEmitted.label = RouteOfSegments(WithoutLeadingPageDir(LastRelative))
       /\ LastRelative = S("pages/users/[id]") => LastEmitted.label = S("/users/:id")

\* The start positions of pages/, views/ or screens/ in the path, in any
\* letter case.
PageDirStarts(s) ==
    {p \in 1..Len(s) : \E d \in PageDirs : OccursAt(ToLowerCase(s), p, d \o S("/"))}

\* The path behind the first pages/, views/ or screens/ in it.
BehindPageDir(s, p) ==
    SubSeq(s, IndexOf(s, S("/"), p) + 1, Len(s))

WithoutFirstPageDir(s) ==
    IF PageDirStarts(s) = {} THEN s ELSE BehindPageDir(s, Least(PageDirStarts(s)))

\* C8 as amended: with no router match, the route of a file that is no index
\* or home file is its path relative to the source root without the
\* extension and without everything up to and including the first pages/,
\* views/ or screens/ in it (in any letter case, wherever it stands: behind
\* other directories or as the end of a longer directory name), in lower
\* case, each segment [param] turned into :param; src/pages/users/[id].vue
\* under src gives /users/:id.
C8_FirstOccurrence ==
    InferredPlain =>
       /\ LastEmitted.label = RouteOfSegments(WithoutFirstPageDir(LastRelative))
       /\ LastRelative = S("pages/users/[id]") => LastEmitted.label = S("/users/:id")

\* A file below a page directory that is not the first segment of its path
\* was given the route of the path behind that directory.
C8_Witness ==
    /\ InferredPlain
    /\ LastRelative = S("users/pages/[id]")
    /\ LastEmitted.label = S("/:id")

\* The source file of the last artifact is an index or home file without a
\* route in the router file.
InferredIndex ==
    /\ IsFrontend(call)
    /\ emitted # <<>>
    /\ LastOf(Segments(LastRelative)) \in {S("index"), S("home")}
    /\ ~LastRouterRoute.found

\* The path of the directory of a file, behind its page directory.
ContainingDir(s) == PrefixPath(Segments(s), Len(Segments(s)) - 1)

\* C9: path inference collapses the suffixes /index and /home: the route of
\* a file index.vue or home.vue is the route of the directory it is in and
\* does not end in /index or /home; it is / when the file is directly in the
\* source root or directly in pages/, views/ or screens/.
C9_SuffixCollapse ==
    InferredIndex =>
       /\ LastEmitted.label =
             RouteOfSegments(ContainingDir(WithoutFirstPageDir(LastRelative)))
       /\ ~EndsWith(LastEmitted.label, S("/index"))
       /\ ~EndsWith(LastEmitted.label, S("/home"))

\* C10: the route that route resolution gives a file is not empty; a route
\* that comes from path inference begins with a slash and holds no two
\* slashes in succession.
C10_RouteShape ==
    (IsFrontend(call) /\ emitted # <<>>) =>
       /\ LastEmitted.label # <<>>
       /\ LastEmitted.label = LastInferredRoute =>
             /\ Head(LastEmitted.label) = 47
             /\ ~Includes(LastEmitted.label, S("//"))

\* A file whose relative path holds a backslash before a slash, which
\* inference turns into two slashes, was given an inferred route.
C10_Witness ==
    /\ IsFrontend(call)
    /\ emitted # <<>>
    /\ Includes(LastRelative, S("//"))
    /\ LastEmitted.label = LastInferredRoute

\* What the documented conversion makes of one character of a route.
RouteChar(c) == IF c = 47 THEN <<45>> ELSE IF c = 58 THEN <<>> ELSE <<LowerChar(c)>>

\* The documented base name of a route: the leading slash removed, every
\* other slash turned into a hyphen, every colon removed, lower case.
RouteBaseName(route) ==
    Flat([i \in 1..Len(route) |->
            IF i = 1 /\ route[i] = 47 THEN <<>> ELSE RouteChar(route[i])])

\* C11 as stated: for every route, the name of the frontend artifact is the
\* route without its leading slash, with a hyphen for every other slash,
\* without colons and in lower case, followed by .vue.txt.
C11_EveryRoute ==
    (IsFrontend(call) /\ emitted # <<>>) =>
       LastEmitted.name = RouteBaseName(LastEmitted.label) \o S(".vue.txt")

\* C11: the name of the frontend artifact is the documented base name of the
\* route followed by .vue.txt; when that base name is empty (the route /),
\* it is the name of the source file without .vue, in lower case, followed
\* by .vue.txt.
C11_RouteOrFileName ==
    (IsFrontend(call) /\ emitted # <<>>) =>
       LastEmitted.name =
          (IF RouteBaseName(LastEmitted.label) # <<>>
           THEN RouteBaseName(LastEmitted.label)
           ELSE ToLowerCase(Basename(LastEmitted.source, S(".vue")))) \o S(".vue.txt")

\* The route /users/:id was given the name users-id.vue.txt.
C11_Witness ==
    /\ IsFrontend(call)
    /\ emitted # <<>>
    /\ LastEmitted.label = S("/users/:id")
    /\ LastEmitted.name = S("users-id.vue.txt")

\* The text holds the literal lit.
Holds(text, lit) ==
    \E i \in 1..(Len(text) - Len(lit) + 1) : SubSeq(text, i, i + Len(lit) - 1) = lit

\* The documented decision of the classifier on the text and the path of a
\* C# file.
DocumentedModel(text, filePath) ==
    \/ \E lit \in {S("[Key]"), S("[Required]"), S("[ForeignKey"), S("[Table"), S("[Column")} :
          Holds(text, lit)
    \/ Holds(text, S("public virtual"))
         /\ (Holds(text, S("ICollection<")) \/ Holds(text, S("List<")))
    \/ Holds(text, S("public int Id { get; set; }"))
    \/ Holds(text, S("public Guid Id { get; set; }"))
    \/ Holds(text, S("DbSet<")) /\ Holds(text, S("Context"))
    \/ \E lit \in {S("Models"), S("Entities"), S("Domain")} : Holds(filePath, lit)

\* C14: a C# file the walker found is among the model files of the run
\* exactly when its text holds a data annotation ([Key], [Required],
\* [ForeignKey, [Table, [Column), or "public virtual" together with
\* ICollection< or List<, or an Id property of type int or Guid, or DbSet<
\* together with Context, or when its path holds Models, Entities or Domain.
C14_ClassifierExact ==
    (IsBackend(call) /\ pc \in {"loop", "done"}) =>
       \A i \in 1..Len(scanned) :
          (\E j \in 1..Len(files) : files[j] = scanned[i])
             <=> DocumentedModel(Utf8Decode(fs[scanned[i]].data), scanned[i])

\* A file with a navigation property and nothing else, in a directory and
\* under a name the classifier does not know, was emitted as a model.
C14_Witness ==
    /\ IsBackend(call)
    /\ pc = "done"
    /\ Len(scanned) = 1
    /\ ~(\E lit \in {S("Models"), S("Entities"), S("Domain")} : Holds(scanned[1], lit))
    /\ fs[scanned[1]].data = SnippetText({6, 7})
    /\ Len(emitted) = 1

\* The documented kebab-case form of a name from its position i on: a
\* hyphen before each upper-case letter that follows a lower-case letter,
\* and every letter in lower case.
RECURSIVE KebabFrom(_, _)
KebabFrom(name, i) ==
    IF i > Len(name) THEN <<>>
    ELSE (IF i > 1 /\ IsLower(name[i - 1]) /\ IsUpper(name[i]) THEN <<45>> ELSE <<>>)
           \o <<LowerChar(name[i])>> \o KebabFrom(name, i + 1)

\* C12: the name of a backend artifact is the kebab-case form of the model
\* name followed by .cs.txt; converting the converted name again gives the
\* same file name, and the file name holds no upper-case letter.
C12_KebabName ==
    (IsBackend(call) /\ emitted # <<>>) =>
       /\ LastEmitted.name = KebabFrom(LastEmitted.label, 1) \o S(".cs.txt")
       /\ generateOutputFilenameCs(LastEmitted.source,
                                   StripSuffix(LastEmitted.name, S(".cs.txt")))
             = LastEmitted.name
       /\ \A i \in 1..Len(LastEmitted.name) : ~IsUpper(LastEmitted.name[i])

\* The model OrderItem was given the name order-item.cs.txt.
C12_Witness ==
    /\ IsBackend(call)
    /\ emitted # <<>>
    /\ LastEmitted.label = S("OrderItem")
    /\ LastEmitted.name = S("order-item.cs.txt")

\* The output file name the running generator gives the source file when
\* it resolves to this route or model name.
NameOf(file, label) ==
    IF IsFrontend(call) THEN generateOutputFilenameVue(file, label)
    ELSE generateOutputFilenameCs(file, label)

\* C13 as stated: the output file name is a function of the route or of
\* the model name alone: two artifacts of a run with the same route or model
\* name have the same file name, and every source file of the run would be
\* given the file name of the artifact written last if it resolved to the
\* same route or model name.
C13_LabelAlone ==
    emitted # <<>> =>
       /\ \A i, j \in 1..Len(emitted) :
             emitted[i].label = emitted[j].label => emitted[i].name = emitted[j].name
       /\ \A k \in 1..Len(files) : NameOf(files[k], LastEmitted.label) = LastEmitted.name

\* The route or model name of the artifact written last is one whose
\* converted name is not empty.
NamedByLabel == IsBackend(call) \/ RouteBaseName(LastEmitted.label) # <<>>

\* C13: for a model name, and for a route whose converted name is not
\* empty, the output file name is a function of the model name or route
\* alone, whatever the path and name of the source file.
C13_LabelAloneUnlessEmpty ==
    (emitted # <<>> /\ NamedByLabel) =>
       /\ \A i \in 1..Len(emitted) :
             emitted[i].label = LastEmitted.label => emitted[i].name = LastEmitted.name
       /\ \A k \in 1..Len(files) : NameOf(files[k], LastEmitted.label) = LastEmitted.name

\* Two source files of one run resolved to the same route or model name
\* and were given the same file name.
C13_Witness ==
    /\ Len(emitted) >= 2
    /\ NamedByLabel
    /\ \E i \in 1..(Len(emitted) - 1) :
          /\ emitted[i].label = LastEmitted.label
          /\ emitted[i].source # LastEmitted.source
          /\ emitted[i].name = LastEmitted.name

\* The run is one of a generator, called directly or by its command.
GeneratorCall == IsFrontend(call) \/ IsBackend(call)

\* The outcome is an error: an exception to the caller or an exit code
\* other than 0.
Failure(o) == o.kind = "thrown" \/ (o.kind = "exited" /\ o.code # 0)

\* The step is one in which a generator run, past the start of the CLI,
\* meets an error.
ErrorStep == GeneratorCall /\ pc # "start" /\ ~Failure(outcome) /\ Failure(outcome')

\* C15: an error of the file system in a generator run (listing, stat, read
\* of a source file, creation of the output directory, write of an artifact)
\* ends the run in that step: the file at which the loop stood and the files
\* after it are not processed, the CLI reports the error and exits with
\* code 1, the artifacts written before stay as they are, and once the run
\* has ended nothing is done again unless the tool is started anew.
C15_AbortOnError ==
    [][ /\ ErrorStep =>
             /\ pc' = "done"
             /\ emitted' = emitted
             /\ \A i \in 1..Len(emitted) :
                   /\ emitted[i].path \in DOMAIN fs'
                   /\ fs'[emitted[i].path] = fs[emitted[i].path]
             /\ pc = "loop" => (fs' = fs /\ Len(emitted') < Len(files'))
             /\ call.via = "cli" =>
                   /\ outcome'.kind = "exited" /\ outcome'.code = 1
                   /\ messages' = Append(messages, "fail: " \o outcome'.error)
        /\ pc = "done" => (runs' = runs + 1 /\ fs' = fs /\ emitted' = <<>>) ]_vars

\* A run ended with an error of the file system after it had written an
\* artifact, which is on disk.
C15_Witness ==
    /\ GeneratorCall
    /\ pc = "done"
    /\ Failure(outcome)
    /\ outcome.error \in {"write", "read"}
    /\ emitted # <<>>
    /\ Len(emitted) < Len(files)
    /\ \A i \in 1..Len(emitted) : IsFile(fs, emitted[i].path)

\* The text of the source file of the artifact written last holds a match
\* of /public\s+class\s+(\w+)/.
LastHasPublicClass ==
    \E p \in 1..Len(LastEmitted.sourceBytes) :
       ClassNameAt(Utf8Decode(LastEmitted.sourceBytes), p) > 0

\* The source files of the artifacts of this run, in the order written.
EmittedSources == [i \in 1..Len(emitted) |-> emitted[i].source]

\* C16: a heuristic that fails on a file does not end the batch: a Vue file
\* for which router lookup gives no route (the router file cannot be read,
\* the regular expression cannot be built or matches nothing) is emitted
\* with the inferred route, a model file without a public class declaration
\* is emitted under the name of the file, and the run stops before a file
\* only for an error of a read or a write: a run that ends without error
\* has emitted every file the walker and the classifier gave it.
C16_HeuristicFailureEmits ==
    /\ (IsFrontend(call) /\ emitted # <<>> /\ ~LastRouterRoute.found) =>
          LastEmitted.label = LastInferredRoute
    /\ (IsBackend(call) /\ emitted # <<>> /\ ~LastHasPublicClass) =>
          LastEmitted.label = Basename(LastEmitted.source, S(".cs"))
    /\ (GeneratorCall /\ pc = "done" /\ Len(emitted) < Len(files)) =>
          outcome.error \in {"read", "write"}
    /\ (GeneratorCall /\ pc = "done" /\ ~Failure(outcome)) => EmittedSources = files

\* A run ended without error in which a Vue file whose name is no regular
\* expression was emitted with its inferred route before other files.
C16_Witness ==
    /\ IsFrontend(call)
    /\ pc = "done"
    /\ ~Failure(outcome)
    /\ \E i \in 1..(Len(emitted) - 1) :
          /\ PatternThrows(Basename(emitted[i].source, S(".vue")))
          /\ emitted[i].label = inferRouteFromPath(call.sourcePath, emitted[i].source)

\* C17: the tool does not need Python: on a machine on which no Python
\* executable runs, a run of generate-frontend-context or
\* generate-backend-context is not ended by the search for Python; it
\* reaches its generator.
C17_PythonNotRequired ==
    (call.via = "cli" /\ GeneratorCall /\ machine = {} /\ pc = "done") =>
       outcome.error # "Python is not installed or not in PATH"

\* The directory the running generator writes its artifacts into.
ArtifactDir == IF IsFrontend(call) THEN routesOutputPath ELSE modelsOutputPath

\* The file system on which the loop of this run began.
BaseFs == MkdirP(prev.fs, ArtifactDir)

\* The files the loop of this run is given when the directories are listed
\* in the order o.
FilesIn(o) ==
    IF IsFrontend(call) THEN findVueFiles(BaseFs, call.sourcePath, o)
    ELSE FilterModels(BaseFs, findCSharpFiles(BaseFs, call.sourcePath, o))

\* The listing order other than the one of this run.
OtherOrder == IF order = "forward" THEN "reverse" ELSE "forward"

\* The route or model name the running generator resolves the file to.
LabelOf(f, file) ==
    IF IsFrontend(call) THEN getRouteForVueFile(f, call.sourcePath, file)
    ELSE extractModelName(f, file)

\* The file system f after the artifact of the file has been written.
LoopWrite(f, file, label) ==
    WriteFileSync(f, PathJoin(ArtifactDir, NameOf(file, label)),
                  ArtifactBytes(IF IsFrontend(call)
                                THEN VueHeader(RelativeFilePath(file), label)
                                ELSE ModelHeader(RelativeFilePath(file), label),
                                f[file].data))

\* The file system f after the loop has processed the files of the list.
RECURSIVE AfterLoop(_, _)
AfterLoop(f, list) ==
    IF list = <<>> THEN f
    ELSE AfterLoop(LoopWrite(f, Head(list), LabelOf(f, Head(list))), Tail(list))

\* A generator run has ended without error.
Completed == GeneratorCall /\ pc = "done" /\ ~Failure(outcome)

\* The output directory is what the loop leaves when it is given the files
\* in the order of this run, and also when it is given them in the other
\* listing order.
SameInOtherOrder ==
    /\ OutputDir(AfterLoop(BaseFs, files)) = OutputDir(fs)
    /\ OutputDir(AfterLoop(BaseFs, FilesIn(OtherOrder))) = OutputDir(fs)

\* C18 as stated: the order of the source files does not matter: the files
\* of the output directory and their content at the end of a run are the
\* same for every listing order.
C18_AnyOrder == Completed => SameInOtherOrder

\* No two artifacts of this run were written to the same path.
NoCollision ==
    \A i, j \in 1..Len(emitted) : emitted[i].path = emitted[j].path => i = j

\* C18: when no two source files of a run are given the same output name,
\* the files of the output directory and their content at the end of a run
\* that ended without error are the same for every listing order.
C18_AnyOrderWithoutCollision == (Completed /\ NoCollision) => SameInOtherOrder

\* A run ended without error and without collision whose files the other
\* listing order gives in another order.
C18_Witness ==
    /\ Completed
    /\ NoCollision
    /\ Len(emitted) >= 2
    /\ FilesIn(OtherOrder) # files

\* What the generator writes for the source file of the record e.
ArtifactOf(e) ==
    ArtifactBytes(IF IsFrontend(call)
                  THEN VueHeader(RelativeFilePath(e.source), e.label)
                  ELSE ModelHeader(RelativeFilePath(e.source), e.label),
                  e.sourceBytes)

\* The index of the last record of this run that was written to the path.
LastWriteTo(path) ==
    CHOOSE i \in 1..Len(emitted) :
       /\ emitted[i].path = path
       /\ \A j \in (i + 1)..Len(emitted) : emitted[j].path # path

\* The path the loop is about to write the file to.
TargetOf(file) == PathJoin(ArtifactDir, NameOf(file, LabelOf(fs, file)))

\* C19: a write to an output name that exists as a file, from an earlier run
\* or from an earlier source file of this run, replaces it: the run reports
\* nothing and goes on (a write fails only where no file can be written),
\* and every artifact of the run holds, from the write on, what was written
\* for the source file that was written to its name last.
C19_LastWriterWins ==
    /\ (GeneratorCall /\ pc = "loop") => (messages = <<>> /\ outcome = NoOutcome)
    /\ (GeneratorCall /\ pc = "done" /\ outcome.error = "write") =>
          ~IsFile(fs, TargetOf(files[idx]))
    /\ GeneratorCall =>
          \A i \in 1..Len(emitted) :
             /\ IsFile(fs, emitted[i].path)
             /\ fs[emitted[i].path].data = ArtifactOf(emitted[LastWriteTo(emitted[i].path)])

\* A run has ended without error in which two source files were written to
\* one output name, which an earlier run had left a file of.
C19_Witness ==
    /\ Completed
    /\ \E i \in 1..(Len(emitted) - 1) :
          /\ emitted[i].path = LastEmitted.path
          /\ emitted[i].source # LastEmitted.source
          /\ IsFile(prev.fs, LastEmitted.path)
          /\ fs[LastEmitted.path].data = ArtifactOf(LastEmitted)
          /\ ArtifactOf(emitted[i]) # ArtifactOf(LastEmitted)

\* The paths the artifacts of this run were written to.
EmittedPaths == {emitted[i].path : i \in 1..Len(emitted)}

\* C20: a generator run deletes nothing and changes no file but the
\* artifacts whose names it computes: every path that was there when the run
\* began is there, as a file or as a directory as before; every file that
\* was there and that no artifact of the run was written to has the content
\* it had, in the output directory and in the source tree; and the artifacts
\* are written into the routes or models directory and never to a file the
\* walker has listed.
C20_Frame ==
    GeneratorCall =>
       /\ \A p \in DOMAIN prev.fs :
             /\ p \in DOMAIN fs
             /\ fs[p].kind = prev.fs[p].kind
             /\ (IsFile(prev.fs, p) /\ p \notin EmittedPaths) => fs[p].data = prev.fs[p].data
       /\ \A p \in EmittedPaths :
             /\ IsUnder(p, ArtifactDir)
             /\ \A i \in 1..Len(files) : files[i] # p
             /\ \A i \in 1..Len(scanned) : scanned[i] # p

\* A run has ended that replaced an artifact an earlier run had left and
\* left another file of the routes or models directory as it was.
C20_Witness ==
    /\ Completed
    /\ \E p \in EmittedPaths : IsFile(prev.fs, p) /\ fs[p].data # prev.fs[p].data
    /\ \E p \in DOMAIN prev.fs :
          /\ IsFile(prev.fs, p)
          /\ IsUnder(p, ArtifactDir)
          /\ p \notin EmittedPaths
          /\ fs[p].data = prev.fs[p].data

\* The Python scripts started in this run, in the order of their start.
Scripts ==
    SelectSeq(procs, LAMBDA p : p \in {"metadata_generator.py", "upload_embeddings.py"})

SourceMissing == call.cmd \in {"extract", "all"} /\ ~ExistsSync(fs, call.sourcePath)
ConfigMissing == call.cmd \in {"upload", "all"} /\ ~ExistsSync(fs, call.config)

\* What the spinners report when a step has succeeded, and the last line
\* of the all command.
SuccessMessages ==
    {"succeed: Metadata extraction complete!", "succeed: Embeddings upload complete!",
     "log: Onboarding Assistant workflow completed successfully!"}

\* The message that reports the success of the command itself.
CommandSuccess ==
    IF call.cmd = "extract" THEN "succeed: Metadata extraction complete!"
    ELSE "succeed: Embeddings upload complete!"

\* The failure messages that carry the message of the error of a script.
ScriptFailures ==
    {"Error extracting metadata: " \o e : e \in PythonShellErrors}
       \cup {"Error uploading embeddings: " \o e : e \in PythonShellErrors}

Reported(ms) == \E i \in 1..Len(messages) : messages[i] \in ms

\* How a run of extract, upload or all has ended, given what has to be
\* absent from the report of a run that exits with code 1.
FatalVerdict(absent) ==
    pc = "done" =>
       /\ outcome.kind = "exited" /\ outcome.code \in {0, 1}
       /\ (SourceMissing \/ ConfigMissing \/ outcome.error \in ScriptFailures)
             => outcome.code = 1
       /\ SourceMissing => Scripts = <<>>
       /\ ConfigMissing => \A i \in 1..Len(Scripts) : Scripts[i] # "upload_embeddings.py"
       /\ outcome.error \in ScriptFailures
             => messages[Len(messages)] = "fail: " \o outcome.error
       /\ outcome.code = 1 => ~Reported(absent)
       /\ outcome.code = 0 => messages[Len(messages) - (IF call.cmd = "all" THEN 1 ELSE 0)]
                                 = CommandSuccess

\* The end of a Python shell: either the step is reported as succeeded, or
\* the error of the script is reported with its message, the process exits
\* with code 1 and no other script is started.
ShellEnd ==
    pc \in {"waiting", "uploading"} =>
       \/ /\ Len(messages') > Len(messages)
          /\ messages'[Len(messages) + 1] \in SuccessMessages
       \/ /\ pc' = "done" /\ outcome'.code = 1 /\ procs' = procs
          /\ \E e \in PythonShellErrors :
                /\ outcome'.error = (IF pc = "waiting" THEN "Error extracting metadata: "
                                     ELSE "Error uploading embeddings: ") \o e
                /\ messages' = Append(messages, "fail: " \o outcome'.error)

\* C21 as stated: extract, upload and all exit with code 1 when the source
\* directory or the config file is missing or a script ends with an error,
\* the failure message carrying the message of the script's error; a missing
\* source directory or config file is found before the script of the step
\* is started; and no success message at all is reported in such a run.
C21_NoSuccessMessage ==
    [][ShellEnd /\ FatalVerdict(SuccessMessages)']_vars

\* C21, amended: as above, but what is absent from the report of a run that
\* exits with code 1 is the success message of the command (of its last
\* step) and the closing line of all; the success of the extraction step of
\* all is reported before a missing config file or a failed upload ends the
\* run.
C21_NoCommandSuccess ==
    [][ShellEnd /\ FatalVerdict({CommandSuccess,
                                 "log: Onboarding Assistant workflow completed successfully!"})']_vars

\* The all command has ended with code 1 on the error of the upload script,
\* after the extraction step was reported as succeeded.
C21_Witness ==
    /\ pc = "done" /\ call.cmd = "all"
    /\ outcome.code = 1
    /\ outcome.error \in ScriptFailures
    /\ Scripts = <<"metadata_generator.py", "upload_embeddings.py">>
    /\ messages[1] = "succeed: Metadata extraction complete!"

\* A word character (\w) and a white space character (\s) of the texts.
WordChar(c) == (c >= 48 /\ c <= 57) \/ (c >= 65 /\ c <= 90) \/ c = 95 \/ (c >= 97 /\ c <= 122)
AllSpace(text, lo, hi) ==
    lo <= hi /\ \A i \in lo..hi : text[i] \in {9, 10, 11, 12, 13, 32, 160}

\* The positions n at which the identifier of a declaration
\* `public class <Identifier>` that starts at p begins.
DeclaredAt(text, p) ==
    IF p + 5 > Len(text) \/ SubSeq(text, p, p + 5) # S("public") THEN {}
    ELSE {n \in (p + 13)..Len(text) :
            /\ WordChar(text[n])
            /\ \E c \in (p + 7)..(n - 6) :
                  /\ SubSeq(text, c, c + 4) = S("class")
                  /\ AllSpace(text, p + 6, c - 1)
                  /\ AllSpace(text, c + 5, n - 1)}

\* The documented model name of a C# file: the identifier of the first
\* declaration `public class <Identifier>` of its text, and the name of the
\* file without .cs when the text has no such declaration.
DocumentedName(text, filePath) ==
    LET starts == {p \in 1..Len(text) : DeclaredAt(text, p) # {}}
    IN IF starts = {}
       THEN LET file == LastOf(Split(filePath, 47))
            IN IF Len(file) > 3 /\ SubSeq(file, Len(file) - 2, Len(file)) = S(".cs")
               THEN SubSeq(file, 1, Len(file) - 3) ELSE file
       ELSE LET n == CHOOSE n \in DeclaredAt(text, Least(starts)) : TRUE
            IN SubSeq(text, n,
                      Least({e \in n..Len(text) :
                               e = Len(text) \/ ~WordChar(text[e + 1])}))

\* C22: the model name of a C# file is the identifier captured by the first
\* match of `public class <Identifier>` in its text, the name of the file
\* without .cs when the text has no match, and it is not empty.
C22_ModelName ==
    \A i \in 1..Len(emitted) :
       IsBackend(call) =>
          /\ emitted[i].label
                = DocumentedName(Utf8Decode(emitted[i].sourceBytes), emitted[i].source)
          /\ emitted[i].label # <<>>

\* A file with two public class declarations was emitted under the name of
\* the first.
C22_Witness ==
    /\ IsBackend(call)
    /\ Len(emitted) = 1
    /\ LastEmitted.sourceBytes = SnippetText({13, 14})
    /\ LastEmitted.label = S("OrderItem")

UploadStarted(ps) == \E i \in 1..Len(ps) : ps[i] = "upload_embeddings.py"

\* C23: the steps of the all command run in sequence. The source directory
\* is checked first and a missing one ends the run with code 1 and no script
\* started; otherwise the extraction script is started whether the config
\* file exists or not. The upload script is started only in the end callback
\* of the extraction, after the extraction has ended without error and been
\* reported, and only if the config file exists; a failed extraction ends
\* the run with code 1 and no upload, and a missing config file ends it with
\* code 1 after the extraction has been done and reported.
C23_AllInSequence ==
    [][ call.cmd = "all" =>
          /\ (~UploadStarted(procs) /\ UploadStarted(procs')) =>
                /\ pc = "waiting"
                /\ Scripts = <<"metadata_generator.py">>
                /\ ExistsSync(fs, call.config)
                /\ messages' = Append(messages, "succeed: Metadata extraction complete!")
                /\ outcome' = NoOutcome
          /\ (pc = "loaded" /\ ExistsSync(fs, call.sourcePath)) =>
                /\ pc' = "waiting"
                /\ Scripts' = <<"metadata_generator.py">>
                /\ outcome' = NoOutcome /\ messages' = messages
          /\ (pc = "loaded" /\ ~ExistsSync(fs, call.sourcePath)) =>
                /\ pc' = "done" /\ outcome'.code = 1
                /\ Scripts' = <<>>
          /\ (pc = "waiting" /\ pc' = "done") =>
                /\ outcome'.code = 1
                /\ ~UploadStarted(procs')
                /\ \/ outcome'.error \in ScriptFailures
                   \/ /\ ~ExistsSync(fs, call.config)
                      /\ outcome'.error = "Config file not found"
                      /\ messages' = messages \o <<"succeed: Metadata extraction complete!",
                                                   "fail: Config file not found">>
          /\ (pc = "waiting" /\ ~ExistsSync(fs, call.config)) => pc' = "done"
          /\ pc = "uploading" => pc' = "done" ]_vars

\* A run of all with the source directory and without the config file has
\* ended with code 1 after the extraction script was run and reported, and
\* without the upload script.
C23_Witness ==
    /\ call.cmd = "all" /\ pc = "done"
    /\ ExistsSync(fs, call.sourcePath) /\ ~ExistsSync(fs, call.config)
    /\ outcome.code = 1 /\ outcome.error = "Config file not found"
    /\ Scripts = <<"metadata_generator.py">>
    /\ messages = <<"succeed: Metadata extraction complete!", "fail: Config file not found">>

\* The candidates of the router file that exist under the source root, by
\* their places in the fixed order.
ExistingRouterFiles ==
    {i \in 1..Len(RouterFiles) : ExistsSync(fs, PathJoin(call.sourcePath, RouterFiles[i]))}

\* What the i-th candidate alone gives for the Vue file emitted last.
RouteOfCandidate(i) ==
    ReadRouter(fs, PathJoin(call.sourcePath, RouterFiles[i]), LastEmitted.source)

\* The route of a Vue file when only the first existing candidate counts.
FromFirstCandidate(first) ==
    IF first.found THEN first.route ELSE LastInferredRoute

\* C24: router lookup reads the first candidate that exists and no other:
\* the route of a Vue file is the one that candidate gives, and the inferred
\* route when it gives none, also when a later candidate exists and has a
\* matching entry.
C24_FirstRouterFileOnly ==
    (IsFrontend(call) /\ emitted # <<>>) =>
       IF ExistingRouterFiles = {} THEN LastEmitted.label = LastInferredRoute
       ELSE LastEmitted.label
               = FromFirstCandidate(RouteOfCandidate(Least(ExistingRouterFiles)))

\* A Vue file that the first existing candidate does not name and a later
\* one does was emitted with its inferred route.
C24_Witness ==
    /\ IsFrontend(call) /\ emitted # <<>>
    /\ ExistingRouterFiles = {1, 3}
    /\ ~RouteOfCandidate(1).found
    /\ RouteOfCandidate(3) = FoundRoute(S("/nav"))
    /\ LastEmitted.label = LastInferredRoute
    /\ LastEmitted.label # S("/nav")

\* The run has returned its count: to the caller, or to the CLI action that
\* reports it and ends with code 0.
Successful == GeneratorCall /\ pc = "done" /\ ~Failure(outcome)

\* The files the count is documented to count: the Vue files below the
\* source root, or the C# files below it that are classified as models.
Counted ==
    IF IsFrontend(call) THEN SourceFiles
    ELSE {p \in SourceFiles : DocumentedModel(Utf8Decode(fs[p].data), p)}

\* C25: the number a generator returns is the number of Vue files found, or
\* of C# files classified as models; one artifact was written for each of
\* them, so the number is at least the number of artifact files written and
\* equals it exactly when no two source files were given the same name. In
\* a backend run every C# file has been read and classified when the first
\* artifact is written: a file that cannot be read ends the run before any
\* artifact.
C25_Count ==
    /\ Successful =>
          /\ outcome.count = Cardinality(Counted)
          /\ Len(emitted) = outcome.count
          /\ \A p \in Counted :
                Cardinality({i \in 1..Len(emitted) : emitted[i].source = p}) = 1
          /\ \A p \in EmittedPaths : IsFile(fs, p)
          /\ Cardinality(EmittedPaths) <= outcome.count
          /\ (Cardinality(EmittedPaths) = outcome.count)
                <=> (\A i, j \in 1..Len(emitted) :
                        i # j => emitted[i].name # emitted[j].name)
    /\ (IsBackend(call) /\ emitted # <<>>) =>
          /\ \A p \in SourceFiles : CanRead(fs, p)
          /\ Len(files) = Cardinality(Counted)
    /\ (IsBackend(call) /\ pc = "done" /\ outcome.error = "read") => emitted = <<>>

\* A backend run has returned 2 after scanning three C# files and writing
\* one artifact file twice.
C25_Witness ==
    /\ IsBackend(call) /\ Successful
    /\ Len(scanned) = 3
    /\ outcome.count = 2
    /\ Cardinality(EmittedPaths) = 1

\* The suffix of the artifacts of the running generator.
ArtifactSuffix == IF IsFrontend(call) THEN S(".vue.txt") ELSE S(".cs.txt")

\* C26: every file a generator writes is a direct child of the routes or
\* the models directory of the output directory, and that directory exists
\* when a file has been written and when the run returns, also when no
\* source file is found; the
\* computed file name holds no slash and ends in .vue.txt or .cs.txt,
\* whatever the route or the model name is; so every path the run has added
\* to the file system is that directory, a directory above it or a file in
\* it, and no artifact has a name the walker would list.
C26_DirectChildren ==
    GeneratorCall =>
       /\ (emitted # <<>> \/ Successful) => IsDirectory(fs, ArtifactDir)
       /\ \A i \in 1..Len(emitted) :
             /\ 47 \notin {emitted[i].name[k] : k \in 1..Len(emitted[i].name)}
             /\ EndsWith(emitted[i].name, ArtifactSuffix)
             /\ emitted[i].path = ArtifactDir \o S("/") \o emitted[i].name
             /\ ~EndsWith(emitted[i].path, WalkedSuffix)
       /\ \A p \in DOMAIN fs \ DOMAIN prev.fs :
             \/ IsUnder(ArtifactDir, p)
             \/ /\ IsFile(fs, p)
                /\ \E i \in 1..Len(emitted) :
                      p = ArtifactDir \o S("/") \o emitted[i].name

=============================================================================
